---------------------------- MODULE Spec2Model ----------------------------
(***************************************************************************)
(* Model of the pairing-bots orchestration core:                           *)
(*   - the tagged protocol parser (parsing.ts),                            *)
(*   - the driver execution tracker (createDriverExecutionTracker),        *)
(*   - the turn policy engine (shouldSwapDriver),                          *)
(*   - the session orchestrator (PairProgrammingOrchestrator.run and the   *)
(*     functions it awaits), one action per worker invocation that         *)
(*     returns: the code between two awaits runs without interleaving,     *)
(*   - the session observer (record / flush).                              *)
(* Texts are sequences of one-character strings so that trimming, case     *)
(* folding and punctuation stripping are computed, not assumed.            *)
(***************************************************************************)
EXTENDS Integers, Sequences, FiniteSets, TLC

(***************************************************************************)
(* Bounds of the model.                                                    *)
(***************************************************************************)
MaxRounds == 1              \* maxRounds, runs of every kind
MaxToolCalls == 1           \* tool calls of a run, runs of every kind
MaxRoundsLoop == 3          \* maxRounds, runs of the round loop
MaxRoundsSticky == 3        \* maxRounds, runs under the sticky policy
MaxCapRounds == 3           \* maxConsecutiveRounds
MaxCapCheckpoints == 1      \* maxConsecutiveCheckpoints
MaxToolCallsSticky == 1     \* tool calls of a run under the sticky policy
MaxRoundsAlternate == 4     \* maxRounds, runs under alternate_each_round
MaxRoundsCheckpoints == 2   \* maxRounds, runs with several checkpoints
MaxToolCallsCheckpoints == 2
MaxTrackerCalls == 4        \* tool calls seen by a tracker on its own
MaxEditsPerPause == 3       \* editsPerPause of a tracker on its own
MaxRoundsObserver == 1      \* maxRounds, runs whose observer fails to write
MaxRoundsSolo == 2          \* maxRounds, runs of solo_driver_then_reviewer
MaxToolCallsSolo == 1       \* tool calls of a solo run
MaxRoundsReplay == 2        \* maxRounds, runs that are replayed
MaxToolCallsReplay == 1     \* tool calls of a run that is replayed
MaxBytes == 16              \* estimatedWrittenBytes of an agent given to buildSummary
MaxDriven == 2              \* roundsDriven of an agent given to buildSummary
MaxRoundsFair == 2          \* maxRounds, runs whose invocations all return or fail
MaxToolCallsFair == 1       \* tool calls of such a run
MaxRoundsCounter == 2       \* maxRounds, runs with a checkpoint every second edit
MaxToolCallsCounter == 3    \* tool calls of such a run
MaxResolveCalls == 3        \* calls of resolveApiKeyForProvider
MaxStreamRecords == 2       \* record() calls while the event stream is written
MaxStreamFlushes == 2       \* flush() calls while the event stream is written
MaxRuns == 2                \* calls of run() on one orchestrator
MaxRoundsTotals == 3        \* maxRounds of the runs whose totals are compared
MaxToolCallsTotals == 2     \* tool calls of such a run
MaxToolCallsSoloPaused == 3 \* tool calls of a solo run with a pause strategy
MaxRoundsSubscribed == 2    \* maxRounds of the runs whose navigator calls tools
MaxToolCallsSubscribed == 2 \* tool calls of such a run
MaxEstimateCalls == 3       \* tool calls seen by two trackers side by side
MaxSegments == 5            \* pieces of a text given to a parser
MaxRecords == 3             \* record() calls on an observer outside a run
MaxFlushes == 3             \* flush() calls on an observer outside a run

(***************************************************************************)
(* Program constants.                                                      *)
(***************************************************************************)
Infinity == 1000000

AgentIds == {"A", "B"}

otherAgent(id) == IF id = "A" THEN "B" ELSE "A"

Absent == <<"<absent>">>

(***************************************************************************)
(* Text helpers: the String methods the parser uses.                       *)
(***************************************************************************)
Txt(s) ==
  CASE s = "done" -> <<"d","o","n","e">>
    [] s = "Done" -> <<"D","o","n","e">>
    [] s = " DONE " -> <<" ","D","O","N","E"," ">>
    [] s = "done." -> <<"d","o","n","e",".">>
    [] s = "continue" -> <<"c","o","n","t","i","n","u","e">>
    [] s = "NONE" -> <<"N","O","N","E">>
    [] s = "NONE." -> <<"N","O","N","E",".">>
    [] s = "none!" -> <<"n","o","n","e","!">>
    [] s = " None.! " -> <<" ","N","o","n","e",".","!"," ">>
    [] s = "NONE?" -> <<"N","O","N","E","?">>
    [] s = "fix" -> <<"f","i","x">>
    [] s = "handoff" -> <<"h","a","n","d","o","f","f">>
    [] s = "HANDOFF" -> <<"H","A","N","D","O","F","F">>
    [] s = "hand" -> <<"h","a","n","d">>
    [] s = "accept" -> <<"a","c","c","e","p","t">>
    [] s = "Accept" -> <<"A","c","c","e","p","t">>
    [] s = "reject" -> <<"r","e","j","e","c","t">>
    [] s = "ok" -> <<"o","k">>
    [] s = " note " -> <<" ","n","o","t","e"," ">>
    [] s = "note" -> <<"n","o","t","e">>
    [] s = "partial" -> <<"p","a","r","t","i","a","l">>
    [] s = "None" -> <<"N","o","n","e">>

UpperOf == [c \in {"a","c","d","e","f","h","i","j","k","n","o","p","r","t","u","x"} |->
  CASE c = "a" -> "A" [] c = "c" -> "C" [] c = "d" -> "D" [] c = "e" -> "E"
    [] c = "f" -> "F" [] c = "h" -> "H" [] c = "i" -> "I" [] c = "j" -> "J"
    [] c = "k" -> "K" [] c = "n" -> "N" [] c = "o" -> "O" [] c = "p" -> "P"
    [] c = "r" -> "R" [] c = "t" -> "T" [] c = "u" -> "U" [] c = "x" -> "X"]

toUpperCase(t) ==
  [i \in 1..Len(t) |-> IF t[i] \in DOMAIN UpperOf THEN UpperOf[t[i]] ELSE t[i]]

toLowerCase(t) ==
  [i \in 1..Len(t) |->
     IF \E c \in DOMAIN UpperOf : UpperOf[c] = t[i]
     THEN CHOOSE c \in DOMAIN UpperOf : UpperOf[c] = t[i]
     ELSE t[i]]

RECURSIVE trimStart(_)
trimStart(t) ==
  IF t # <<>> /\ Head(t) = " " THEN trimStart(Tail(t)) ELSE t

RECURSIVE trimEnd(_)
trimEnd(t) ==
  IF t # <<>> /\ t[Len(t)] = " " THEN trimEnd(SubSeq(t, 1, Len(t) - 1)) ELSE t

trim(t) == trimEnd(trimStart(t))

\* A normalisation that keeps the closing punctuation.
stripNothing(t) == t

\* String.replace(/[.!]+$/, "")
RECURSIVE stripTrailingPunctuation(_)
stripTrailingPunctuation(t) ==
  IF t # <<>> /\ t[Len(t)] \in {".", "!"}
  THEN stripTrailingPunctuation(SubSeq(t, 1, Len(t) - 1))
  ELSE t

(***************************************************************************)
(* Tagged protocol parser.  A raw response is a record that gives, for     *)
(* each tag it names, what the pattern of extractTag captures in the       *)
(* response (the text between the first pair of tags), or Absent when the  *)
(* pattern does not match, and under `text` the response itself when it is *)
(* spelled out.  In a text an opening or closing tag is one character.     *)
(***************************************************************************)
Tags ==
  {"status", "private_reflection", "public_feedback", "driver_recommendation",
   "decision", "justification", "joint_verdict"}

\* The spellings of a tag the pattern accepts: it has the flag i.
TagNames(tag) == {tag} \cup (IF tag = "decision" THEN {"DECISION"} ELSE {})

OpeningTags(tag) == {"<" \o name \o ">" : name \in TagNames(tag)}

ClosingTags(tag) == {"</" \o name \o ">" : name \in TagNames(tag)}

Least(S) == CHOOSE i \in S : \A j \in S : i <= j

\* text.match(pattern)?.[1]: the leftmost match starts at the first
\* opening tag that a closing tag follows, and its lazy group ends at the
\* first closing tag after it.
matchTag(text, tag) ==
  LET opening == {i \in 1..Len(text) : text[i] \in OpeningTags(tag)}
      closing == {j \in 1..Len(text) : /\ text[j] \in ClosingTags(tag)
                                       /\ opening # {}
                                       /\ j > Least(opening)}
  IN IF closing = {} THEN Absent
     ELSE SubSeq(text, Least(opening) + 1, Least(closing) - 1)

\* The raw response whose text is `text`.
Response(text) ==
  [f \in Tags \cup {"text"} |-> IF f = "text" THEN text ELSE matchTag(text, f)]

\* The text of a raw response, Absent when it is not spelled out.
textOf(raw) == IF "text" \in DOMAIN raw THEN raw.text ELSE Absent

extractTag(raw, tag) ==
  IF tag \notin DOMAIN raw \/ raw[tag] = Absent THEN Absent ELSE trim(raw[tag])

parseDriverReport(raw) ==
  LET statusRaw == IF extractTag(raw, "status") = Absent THEN Absent
                   ELSE toLowerCase(extractTag(raw, "status"))
  IN [status |-> IF statusRaw = Txt("done") THEN "done" ELSE "continue",
      raw |-> raw]

NoPrivateReflection == <<"(no private reflection provided)">>

parseNavigatorReview(raw) ==
  LET privateReflection == IF extractTag(raw, "private_reflection") = Absent
                           THEN NoPrivateReflection
                           ELSE extractTag(raw, "private_reflection")
      publicFeedback == IF extractTag(raw, "public_feedback") = Absent THEN Txt("NONE")
                        ELSE extractTag(raw, "public_feedback")
      normalizedFeedback == stripTrailingPunctuation(toUpperCase(trim(publicFeedback)))
      recommendationRaw == IF extractTag(raw, "driver_recommendation") = Absent THEN Absent
                           ELSE toLowerCase(extractTag(raw, "driver_recommendation"))
  IN [privateReflection |-> privateReflection,
      publicFeedback |-> publicFeedback,
      hasFeedback |-> normalizedFeedback # Txt("NONE"),
      driverRecommendation |-> IF recommendationRaw = Txt("handoff") THEN "handoff" ELSE "continue",
      raw |-> raw]

\* A parser that takes every decision but reject for accept.
parseDriverDecisionLeniently(raw) ==
  LET decisionRaw == IF extractTag(raw, "decision") = Absent THEN Absent
                     ELSE toLowerCase(extractTag(raw, "decision"))
  IN [decision |-> IF decisionRaw = Txt("reject") THEN "reject"
                   ELSE IF decisionRaw # Absent THEN "accept" ELSE "partial",
      justification |-> IF extractTag(raw, "justification") = Absent
                        THEN trim(textOf(raw))
                        ELSE extractTag(raw, "justification"),
      raw |-> raw]

parseDriverDecision(raw) ==
  LET decisionRaw == IF extractTag(raw, "decision") = Absent THEN Absent
                     ELSE toLowerCase(extractTag(raw, "decision"))
  IN [decision |-> IF decisionRaw = Txt("accept") THEN "accept"
                   ELSE IF decisionRaw = Txt("reject") THEN "reject" ELSE "partial",
      justification |-> IF extractTag(raw, "justification") = Absent
                        THEN trim(textOf(raw))
                        ELSE extractTag(raw, "justification"),
      raw |-> raw]

parseJointVerdict(raw) ==
  LET verdictRaw == IF extractTag(raw, "joint_verdict") = Absent THEN Absent
                    ELSE toUpperCase(extractTag(raw, "joint_verdict"))
  IN [jointVerdict |-> IF verdictRaw = <<"A","P","P","R","O","V","E","D">>
                       THEN "APPROVED" ELSE "NEEDS_MORE_WORK",
      raw |-> raw]

(***************************************************************************)
(* Tool events.  The arguments of a tool call are an object with the text  *)
(* fields content and newText, or no object; NotAString stands for a field *)
(* that is absent or not a string.  A character outside ASCII is named by  *)
(* its code point.                                                         *)
(***************************************************************************)
NotAString == <<"<not a string>">>

NoArgs == [isObject |-> FALSE, content |-> NotAString, newText |-> NotAString]

TextArgs(text) == [isObject |-> TRUE, content |-> text, newText |-> text]

StartEvent(id, tool, args) ==
  [type |-> "tool_execution_start", toolCallId |-> id, toolName |-> tool,
   args |-> args, isError |-> FALSE]

EndEvent(id, tool, isError) ==
  [type |-> "tool_execution_end", toolCallId |-> id, toolName |-> tool,
   args |-> NoArgs, isError |-> isError]

\* Buffer.byteLength(value, "utf8")
Utf8Width(c) == IF c = "U+00E9" THEN 2 ELSE IF c = "U+20AC" THEN 3 ELSE 1

RECURSIVE byteLength(_)
byteLength(value) ==
  IF value = <<>> THEN 0 ELSE Utf8Width(Head(value)) + byteLength(Tail(value))

\* An estimate in characters.
estimateWrittenChars(toolName, args) ==
  IF ~args.isObject THEN 0
  ELSE IF toolName = "write"
       THEN (IF args.content # NotAString THEN Len(args.content) ELSE 0)
  ELSE IF toolName = "edit"
       THEN (IF args.newText # NotAString THEN Len(args.newText) ELSE 0)
  ELSE 0

estimateWrittenBytes(toolName, args) ==
  IF ~args.isObject THEN 0
  ELSE IF toolName = "write"
       THEN (IF args.content # NotAString THEN byteLength(args.content) ELSE 0)
  ELSE IF toolName = "edit"
       THEN (IF args.newText # NotAString THEN byteLength(args.newText) ELSE 0)
  ELSE 0

(***************************************************************************)
(* Driver execution tracker (createDriverExecutionTracker).                *)
(***************************************************************************)
EmptyMap == [id \in {} |-> 0]

MapSet(m, k, v) == [id \in (DOMAIN m) \cup {k} |-> IF id = k THEN v ELSE m[id]]

MapDelete(m, k) == [id \in (DOMAIN m) \ {k} |-> m[id]]

MapGetOrZero(m, k) == IF k \in DOMAIN m THEN m[k] ELSE 0

NoPause == [mode |-> "none"]

EveryN(n, tools) == [mode |-> "every_n_file_edits", editsPerPause |-> n, countedTools |-> tools]

createDriverExecutionTracker(pauseStrategy) ==
  [pauseTriggered |-> FALSE,
   countedEdits |-> 0,
   nextCheckpointAt |-> IF pauseStrategy.mode = "every_n_file_edits"
                        THEN pauseStrategy.editsPerPause ELSE Infinity,
   checkpointCount |-> 0,
   editWriteCallCount |-> 0,
   estimatedWrittenBytes |-> 0,
   pendingWriteEstimates |-> EmptyMap,
   currentPhase |-> "driving"]

IsEditOrWrite(toolName) == toolName = "edit" \/ toolName = "write"

\* The checkpoint test off by one: the call that reaches the threshold does
\* not fire.
AtOrBelowThreshold(countedEdits, nextCheckpointAt) == countedEdits <= nextCheckpointAt

\* The checkpoint test of onEvent: the call that was just counted fires a
\* checkpoint unless the counter is still below the threshold.
BelowThreshold(countedEdits, nextCheckpointAt) == countedEdits < nextCheckpointAt

\* A tracker that pauses at every successful edit or write, whatever the
\* pause strategy.
onEventPausingInEveryMode(t, pauseStrategy, event) ==
  IF event.type = "tool_execution_end" /\ ~event.isError /\ IsEditOrWrite(event.toolName)
  THEN [tracker |-> [t EXCEPT !.pauseTriggered = TRUE,
                              !.checkpointCount = @ + 1,
                              !.editWriteCallCount = @ + 1],
        fired |-> TRUE]
  ELSE [tracker |-> t, fired |-> FALSE]

\* A tracker that, when it counts edits, credits the calls that failed as
\* well.
onEventCreditingFailures(t, pauseStrategy, event) ==
  LET promoted == [t EXCEPT
                     !.editWriteCallCount = @ + 1,
                     !.estimatedWrittenBytes =
                        @ + MapGetOrZero(t.pendingWriteEstimates, event.toolCallId)]
      cleared(u) == [u EXCEPT !.pendingWriteEstimates = MapDelete(@, event.toolCallId)]
      quiet(u) == [tracker |-> u, fired |-> FALSE]
  IN
  IF event.type = "tool_execution_start" /\ IsEditOrWrite(event.toolName)
  THEN quiet([t EXCEPT !.pendingWriteEstimates =
                 MapSet(@, event.toolCallId, estimateWrittenBytes(event.toolName, event.args))])
  ELSE IF pauseStrategy.mode # "every_n_file_edits"
  THEN (IF event.type = "tool_execution_end" /\ ~event.isError /\ IsEditOrWrite(event.toolName)
        THEN quiet(cleared(promoted))
        ELSE quiet(t))
  ELSE IF event.type # "tool_execution_end"
  THEN quiet(t)
  ELSE
    LET t1 == IF IsEditOrWrite(event.toolName) THEN cleared(promoted) ELSE t
    IN
    IF event.isError THEN quiet(t1)
    ELSE IF event.toolName \notin pauseStrategy.countedTools THEN quiet(t1)
    ELSE
      LET t2 == [t1 EXCEPT !.countedEdits = @ + 1]
      IN IF BelowThreshold(t2.countedEdits, t2.nextCheckpointAt) THEN quiet(t2)
         ELSE [tracker |-> [t2 EXCEPT !.pauseTriggered = TRUE,
                                      !.checkpointCount = @ + 1,
                                      !.nextCheckpointAt = @ + pauseStrategy.editsPerPause],
               fired |-> TRUE]

\* onEvent: the tracker after the event, and whether onCheckpoint was called
\* (with the tracker's current phase).
onEvent(t, pauseStrategy, event) ==
  LET promoted == [t EXCEPT
                     !.editWriteCallCount = @ + 1,
                     !.estimatedWrittenBytes =
                        @ + MapGetOrZero(t.pendingWriteEstimates, event.toolCallId)]
      cleared(u) == [u EXCEPT !.pendingWriteEstimates = MapDelete(@, event.toolCallId)]
      quiet(u) == [tracker |-> u, fired |-> FALSE]
  IN
  IF event.type = "tool_execution_start" /\ IsEditOrWrite(event.toolName)
  THEN quiet([t EXCEPT !.pendingWriteEstimates =
                 MapSet(@, event.toolCallId, estimateWrittenBytes(event.toolName, event.args))])
  ELSE IF pauseStrategy.mode # "every_n_file_edits"
  THEN (IF event.type = "tool_execution_end" /\ ~event.isError /\ IsEditOrWrite(event.toolName)
        THEN quiet(cleared(promoted))
        ELSE quiet(t))
  ELSE IF event.type # "tool_execution_end"
  THEN quiet(t)
  ELSE
    LET t1 == IF IsEditOrWrite(event.toolName)
              THEN cleared(IF ~event.isError THEN promoted ELSE t)
              ELSE t
    IN
    IF event.isError THEN quiet(t1)
    ELSE IF event.toolName \notin pauseStrategy.countedTools THEN quiet(t1)
    ELSE
      LET t2 == [t1 EXCEPT !.countedEdits = @ + 1]
      IN IF BelowThreshold(t2.countedEdits, t2.nextCheckpointAt) THEN quiet(t2)
         ELSE [tracker |-> [t2 EXCEPT !.pauseTriggered = TRUE,
                                      !.checkpointCount = @ + 1,
                                      !.nextCheckpointAt = @ + pauseStrategy.editsPerPause],
               fired |-> TRUE]

\* A tracker that counts the edits of each phase on their own.
setPhaseWithNewCounter(t, phase) ==
  [t EXCEPT !.currentPhase = phase,
            !.countedEdits = 0,
            !.nextCheckpointAt = @ \div (t.checkpointCount + 1)]

\* A tracker that stays in the phase it was created in.
setPhaseIgnored(t, phase) == t

setPhase(t, phase) == [t EXCEPT !.currentPhase = phase]

snapshot(t) ==
  [pauseTriggered |-> t.pauseTriggered,
   checkpointCount |-> t.checkpointCount,
   editWriteCallCount |-> t.editWriteCallCount,
   estimatedWrittenBytes |-> t.estimatedWrittenBytes]

(***************************************************************************)
(* Turn policy engine (shouldSwapDriver).  The reason safety_cap_rounds_N  *)
(* is the pair of its kind and N.                                          *)
(***************************************************************************)
AlternateEachRound == [mode |-> "alternate_each_round"]

Sticky(r, c) ==
  [mode |-> "same_driver_until_navigator_signoff",
   maxConsecutiveRounds |-> r, maxConsecutiveCheckpoints |-> c]

Reason(kind, n) == [kind |-> kind, n |-> n]

\* A safety cap compared strictly: the swap comes one round, or one
\* checkpoint, late.
capExceeded(count, cap) == count > cap

\* The test of a safety cap.
capReached(count, cap) == count >= cap

\* The sticky policy without its checkpoint cap.
shouldSwapDriverWithoutCheckpointCap(turnPolicy, result, consecutiveRoundsWithDriver, consecutiveCheckpointsWithDriver) ==
  IF turnPolicy.mode = "alternate_each_round"
  THEN [swap |-> TRUE, reason |-> Reason("alternate_each_round", 0)]
  ELSE IF result.navigatorReview.driverRecommendation = "handoff"
  THEN [swap |-> TRUE, reason |-> Reason("navigator_requested_handoff", 0)]
  ELSE IF capReached(consecutiveRoundsWithDriver, turnPolicy.maxConsecutiveRounds)
  THEN [swap |-> TRUE, reason |-> Reason("safety_cap_rounds", turnPolicy.maxConsecutiveRounds)]
  ELSE [swap |-> FALSE, reason |-> Reason("continue_same_driver", 0)]

\* The sticky policy with the safety caps tested before the recommendation.
shouldSwapDriverCapsFirst(turnPolicy, result, consecutiveRoundsWithDriver, consecutiveCheckpointsWithDriver) ==
  IF turnPolicy.mode = "alternate_each_round"
  THEN [swap |-> TRUE, reason |-> Reason("alternate_each_round", 0)]
  ELSE IF capReached(consecutiveRoundsWithDriver, turnPolicy.maxConsecutiveRounds)
  THEN [swap |-> TRUE, reason |-> Reason("safety_cap_rounds", turnPolicy.maxConsecutiveRounds)]
  ELSE IF capReached(consecutiveCheckpointsWithDriver, turnPolicy.maxConsecutiveCheckpoints)
  THEN [swap |-> TRUE,
        reason |-> Reason("safety_cap_checkpoints", turnPolicy.maxConsecutiveCheckpoints)]
  ELSE IF result.navigatorReview.driverRecommendation = "handoff"
  THEN [swap |-> TRUE, reason |-> Reason("navigator_requested_handoff", 0)]
  ELSE [swap |-> FALSE, reason |-> Reason("continue_same_driver", 0)]

\* A policy engine that swaps on the navigator's recommendation alone,
\* whatever the policy.
shouldSwapDriverOnHandoffOnly(turnPolicy, result, consecutiveRoundsWithDriver, consecutiveCheckpointsWithDriver) ==
  IF result.navigatorReview.driverRecommendation = "handoff"
  THEN [swap |-> TRUE, reason |-> Reason("navigator_requested_handoff", 0)]
  ELSE [swap |-> FALSE, reason |-> Reason("continue_same_driver", 0)]

shouldSwapDriver(turnPolicy, result, consecutiveRoundsWithDriver, consecutiveCheckpointsWithDriver) ==
  IF turnPolicy.mode = "alternate_each_round"
  THEN [swap |-> TRUE, reason |-> Reason("alternate_each_round", 0)]
  ELSE IF result.navigatorReview.driverRecommendation = "handoff"
  THEN [swap |-> TRUE, reason |-> Reason("navigator_requested_handoff", 0)]
  ELSE IF capReached(consecutiveRoundsWithDriver, turnPolicy.maxConsecutiveRounds)
  THEN [swap |-> TRUE, reason |-> Reason("safety_cap_rounds", turnPolicy.maxConsecutiveRounds)]
  ELSE IF capReached(consecutiveCheckpointsWithDriver, turnPolicy.maxConsecutiveCheckpoints)
  THEN [swap |-> TRUE,
        reason |-> Reason("safety_cap_checkpoints", turnPolicy.maxConsecutiveCheckpoints)]
  ELSE [swap |-> FALSE, reason |-> Reason("continue_same_driver", 0)]

(***************************************************************************)
(* Inputs of the environment: what a worker may answer and which tools it  *)
(* may call.  parse* reduce the answers to the fields the orchestrator     *)
(* reads.                                                                  *)
(***************************************************************************)
\* A status that is done up to case and blanks, one that is not, none.
DriverResponses == {[status |-> x] : x \in {Absent, Txt(" DONE "), Txt("done.")}}

\* A review that has a public_feedback section also has private notes.
NavigatorResponse(feedback, recommendation) ==
  [private_reflection |-> IF feedback = Absent THEN Absent ELSE Txt(" note "),
   public_feedback |-> feedback,
   driver_recommendation |-> recommendation]

\* Feedback that is NONE up to case and closing punctuation, feedback that
\* is not; a recommendation that is handoff up to case, none.
NavigatorResponses ==
  {NavigatorResponse(Absent, Absent),
   NavigatorResponse(Txt("NONE."), Txt("handoff")),
   NavigatorResponse(Txt("NONE?"), Absent),
   NavigatorResponse(Txt("fix"), Txt("HANDOFF"))}

DecisionResponses == {[decision |-> x] : x \in {Absent, Txt("Accept")}}

\* A decision that is accept up to case, one that is reject, none.
SoloDecisionResponses == {[decision |-> x] : x \in {Absent, Txt("Accept"), Txt("reject")}}

FinalReviewResponses == {NavigatorResponse(Txt("fix"), Absent)}

VerdictResponses ==
  {[joint_verdict |-> x] : x \in {Absent, <<"a","p","p","r","o","v","e","d">>}}

\* The answers of the runs that only exercise the turn policy: the driver
\* continues or is done, the navigator has feedback or not and recommends
\* handoff or not.
PolicyDriverResponses == {[status |-> x] : x \in {Absent, Txt("done")}}

PolicyNavigatorResponses ==
  {NavigatorResponse(f, r) : f \in {Txt("NONE"), Txt("fix")}, r \in {Absent, Txt("handoff")}}

\* The answers of a driver that always continues.
ContinueResponses == {[status |-> Absent]}

PolicyDecisionResponses == {[decision |-> Absent]}

PolicyVerdictResponses == {[joint_verdict |-> Absent]}

codingTools == {"read", "bash", "edit", "write"}

readOnlyTools == {"read", "grep", "find", "ls"}

\* The tool calls a worker makes in the model, with their arguments.
ToolCallInputs ==
  {[toolName |-> "edit", args |-> TextArgs(<<"a", "U+00E9">>)],
   [toolName |-> "read", args |-> NoArgs]}

ExecutionModes == {"paired_turns", "solo_driver_then_reviewer"}

defaultCountedTools == {"edit", "write"}

\* Configurations of the runs of every kind.
Configs ==
  [executionMode : ExecutionModes,
   maxRounds : 1..MaxRounds,
   driverStartsAs : AgentIds,
   pauseStrategy : {NoPause, EveryN(1, defaultCountedTools)},
   turnPolicy : {AlternateEachRound, Sticky(2, 1)}]

\* Paired runs of the round loop, without tool calls.
LoopConfigs ==
  [executionMode : {"paired_turns"},
   maxRounds : 1..MaxRoundsLoop,
   driverStartsAs : AgentIds,
   pauseStrategy : {NoPause},
   turnPolicy : {AlternateEachRound, Sticky(2, 1)}]

\* Paired runs under the sticky policy, a checkpoint at every counted call.
StickyConfigs ==
  [executionMode : {"paired_turns"},
   maxRounds : {MaxRoundsSticky},
   driverStartsAs : {"A"},
   pauseStrategy : {EveryN(1, defaultCountedTools)},
   turnPolicy : {Sticky(r, c) : r \in 1..MaxCapRounds, c \in 1..MaxCapCheckpoints}]

\* Paired runs under alternate_each_round.
AlternateConfigs ==
  [executionMode : {"paired_turns"},
   maxRounds : 1..MaxRoundsAlternate,
   driverStartsAs : AgentIds,
   pauseStrategy : {NoPause},
   turnPolicy : {AlternateEachRound}]

\* Paired runs in which one driver can fire several checkpoints.
CheckpointConfigs ==
  [executionMode : {"paired_turns"},
   maxRounds : 1..MaxRoundsCheckpoints,
   driverStartsAs : {"A"},
   pauseStrategy : {EveryN(1, defaultCountedTools)},
   turnPolicy : {Sticky(2, 1), Sticky(2, 2)}]

\* The owners of a tracker on its own: every pause strategy of the model.
SoloConfigs ==
  [executionMode : {"solo_driver_then_reviewer"},
   maxRounds : 1..MaxRoundsSolo,
   driverStartsAs : AgentIds,
   pauseStrategy : {NoPause, EveryN(1, defaultCountedTools)},
   turnPolicy : {AlternateEachRound, Sticky(1, 1)}]

ObserverConfigs ==
  [executionMode : {"paired_turns"},
   maxRounds : 1..MaxRoundsObserver,
   driverStartsAs : {"A"},
   pauseStrategy : {NoPause},
   turnPolicy : {AlternateEachRound}]

\* Paired runs that are replayed: a checkpoint at every counted call.
ReplayConfigs ==
  [executionMode : {"paired_turns"},
   maxRounds : 1..MaxRoundsReplay,
   driverStartsAs : {"A"},
   pauseStrategy : {EveryN(1, defaultCountedTools)},
   turnPolicy : {Sticky(2, 1)}]

TrackerConfigs ==
  [executionMode : {"paired_turns"},
   maxRounds : {1},
   driverStartsAs : {"A"},
   pauseStrategy : {NoPause} \cup
                   {EveryN(n, tools) : n \in 1..MaxEditsPerPause,
                                       tools \in {defaultCountedTools, {"edit"}, {"bash"}}},
   turnPolicy : {AlternateEachRound}]

(***************************************************************************)
(* State.                                                                  *)
(***************************************************************************)
VARIABLES
  config,                           \* PairAgentConfig of the orchestrator
  pc,                               \* the await at which run() is suspended
  call,                             \* the worker invocation in flight
  openToolCalls,                    \* tool calls started and not yet ended
  toolCallsMade,                    \* number of tool calls started in the run
  workers,                          \* per agent: tool set, conversation, steers
  sharedJournal,                    \* this.sharedJournal
  observer,                         \* the SessionObserver
  executionTracker,                 \* the tracker of the round in progress
  delivered,                        \* events the tracker has been given
  locals,                           \* locals of the awaited function (runRound, finalReview)
  round,                            \* loop variable of runPairedExecution
  driverId,
  consecutiveRoundsWithDriver,
  consecutiveCheckpointsWithDriver,
  swapCount,
  checkpointCount,
  contributions,
  rounds,                           \* RoundResult[]
  run                               \* locals of run(): status, result, outcome

loopVars ==
  <<round, driverId, consecutiveRoundsWithDriver, consecutiveCheckpointsWithDriver,
    swapCount, checkpointCount, contributions, rounds>>

sysVars == <<workers, sharedJournal, observer>>

toolVars == <<openToolCalls, toolCallsMade>>

trackerVars == <<executionTracker, delivered>>

vars ==
  <<config, pc, call, toolVars, sysVars, trackerVars, locals, loopVars, run>>

None == [none |-> TRUE]

\* what a caller gets of a promise that rejects
Threw == [threw |-> TRUE]

NoPrompt == [kind |-> "-"]

NoCall ==
  [actor |-> "-", promptKind |-> "-", prompt |-> NoPrompt, phase |-> "-", tracked |-> FALSE]

NoDelivered == [successCounted |-> 0, fired |-> 0, callbacks |-> <<>>]

\* A template that starts with one round driven.
contributionTemplateOfOneRound(agent) ==
  [agent |-> agent,
   estimatedWrittenBytes |-> 0,
   editWriteCallCount |-> 0,
   roundsDriven |-> 1,
   checkpointsWhileDriving |-> 0,
   roughCodeSharePercent |-> 0]

contributionTemplate(agent) ==
  [agent |-> agent,
   estimatedWrittenBytes |-> 0,
   editWriteCallCount |-> 0,
   roundsDriven |-> 0,
   checkpointsWhileDriving |-> 0,
   roughCodeSharePercent |-> 0]

\* The names of the events the orchestrator records.
EventNames ==
  {"session_start", "session_error", "round_start", "round_end", "driver_swap",
   "prompt_start", "prompt_end", "tool_execution_start", "tool_execution_end",
   "tool_execution_error"}

\* this.events is kept as the number of recorded events of each name (the
\* errored tool_execution_end events under a name of their own): this is
\* all that flush reads of it.
\* prompts lists the prompt_start events (actor and promptKind),
\* eventStreamWriteError is "-" until a write of the event stream fails, and
\* eventStreamLines counts the lines queued for the event-stream file, the
\* first of them by the constructor.
NewObserver ==
  [events |-> [n \in EventNames |-> 0], eventIndex |-> 0, prompts |-> <<>>,
   eventStreamWriteError |-> "-", eventStreamLines |-> 1, flushedSummary |-> None,
   flushCalls |-> <<>>, finalLog |-> None]

\* A worker: the tools of its agent, the messages appended to its
\* conversation, the steering messages queued for it, whether agent.prompt
\* is running, and whether its last assistant message ended on the stop
\* reason error or aborted.
NewWorker ==
  [tools |-> codingTools, messages |-> <<>>, steers |-> <<>>, prompting |-> FALSE,
   failed |-> FALSE]

NewRun ==
  [status |-> "completed", failureMessage |-> "-", hasResultCore |-> FALSE,
   summary |-> None, finalReview |-> None, outcome |-> "pending", error |-> "-",
   result |-> None]

InitWith(c) ==
  /\ config = c
  /\ pc = "ready"
  /\ call = NoCall
  /\ openToolCalls = {}
  /\ toolCallsMade = 0
  /\ workers = [a \in AgentIds |-> NewWorker]
  /\ sharedJournal = <<>>
  /\ observer = NewObserver
  /\ executionTracker = None
  /\ delivered = NoDelivered
  /\ locals = None
  /\ round = 0
  /\ driverId = c.driverStartsAs
  /\ consecutiveRoundsWithDriver = 0
  /\ consecutiveCheckpointsWithDriver = 0
  /\ swapCount = 0
  /\ checkpointCount = 0
  /\ contributions = [a \in AgentIds |-> contributionTemplate(a)]
  /\ rounds = <<>>
  /\ run = NewRun

Init == \E c \in Configs : InitWith(c)

(***************************************************************************)
(* The orchestrator's synchronous helpers, as functions of the system      *)
(* record s = [workers, sharedJournal, observer].                          *)
(***************************************************************************)
Sys == [workers |-> workers, sharedJournal |-> sharedJournal, observer |-> observer]

\* A commit whose last two journal entries may land in either order.
CommitInAnyOrder(s) ==
  /\ workers' = s.workers
  /\ observer' = s.observer
  /\ LET n == Len(s.sharedJournal)
     IN sharedJournal' \in
          {s.sharedJournal} \cup
          (IF n >= 2
           THEN {[s.sharedJournal EXCEPT ![n - 1] = s.sharedJournal[n],
                                         ![n] = s.sharedJournal[n - 1]]}
           ELSE {})

Commit(s) ==
  /\ workers' = s.workers
  /\ sharedJournal' = s.sharedJournal
  /\ observer' = s.observer

\* SessionObserver.queueEventStreamLine: nothing is queued once a write of
\* the event stream has failed.
queueEventStreamLine(o) ==
  IF o.eventStreamWriteError # "-" THEN o
  ELSE [o EXCEPT !.eventStreamLines = @ + 1]

\* A record that takes events after the flush as well.
recordAfterFlush(s, name, actor) ==
  [s EXCEPT !.observer = queueEventStreamLine([@ EXCEPT !.events[name] = @ + 1,
                                                        !.eventIndex = @ + 1])]

\* SessionObserver.record: ignored once the observer has been flushed.
record(s, name, actor) ==
  IF s.observer.flushedSummary # None THEN s
  ELSE [s EXCEPT !.observer = queueEventStreamLine([@ EXCEPT !.events[name] = @ + 1,
                                                             !.eventIndex = @ + 1])]

\* SessionObserver.recordPromptStart
recordPromptStart(s, actor, promptKind) ==
  IF s.observer.flushedSummary # None THEN s
  ELSE [record(s, "prompt_start", actor) EXCEPT
          !.observer.prompts = Append(@, [actor |-> actor, promptKind |-> promptKind])]

\* ModelWorker.appendSharedContext / appendPrivateMemory / setRole
appendSharedContext(s, id, rendered) ==
  [s EXCEPT !.workers[id].messages =
              Append(@, [tag |-> "SHARED CONTEXT", owner |-> "-", body |-> rendered])]

\* A private memory that is appended to both conversations.
appendPrivateMemoryToBoth(s, id, content) ==
  [s EXCEPT !.workers = [w \in AgentIds |->
              [@[w] EXCEPT !.messages =
                 Append(@, [tag |-> "PRIVATE MEMORY", owner |-> w, body |-> content])]]]

appendPrivateMemory(s, id, content) ==
  [s EXCEPT !.workers[id].messages =
              Append(@, [tag |-> "PRIVATE MEMORY", owner |-> id, body |-> content])]

\* A setRole that grants the coding tools to a driver and takes nothing
\* from a navigator.
setRoleGrantingOnly(s, id, role) ==
  [s EXCEPT !.workers[id].tools = IF role = "driver" THEN codingTools ELSE @]

setRole(s, id, role) ==
  [s EXCEPT !.workers[id].tools = IF role = "driver" THEN codingTools ELSE readOnlyTools]

Entry(stage, actor, content) == [stage |-> stage, actor |-> actor, content |-> content]

\* The rendering of an entry: its lines (the timestamp line is left out, as
\* entries carry no clock here).
formatSharedEntry(entry) ==
  <<<<"Stage", entry.stage>>, <<"Actor", entry.actor>>, entry.content>>

\* A broadcast that reaches worker A only.
broadcastSharedToAOnly(s, stage, actor, content) ==
  LET entry == Entry(stage, actor, content)
      s1 == [s EXCEPT !.sharedJournal = Append(@, entry)]
  IN appendSharedContext(s1, "A", formatSharedEntry(entry))

broadcastShared(s, stage, actor, content) ==
  LET entry == Entry(stage, actor, content)
      s1 == [s EXCEPT !.sharedJournal = Append(@, entry)]
      rendered == formatSharedEntry(entry)
  IN appendSharedContext(appendSharedContext(s1, "A", rendered), "B", rendered)

\* The prompts, as the data each builder puts into its text.
buildPlanDraftPrompt == [kind |-> "plan_draft"]

buildPlanCritiquePrompt(draft) == [kind |-> "plan_critique", draft |-> draft]

buildPlanRevisionPrompt(draft, critique) ==
  [kind |-> "plan_revision", draft |-> draft, critique |-> critique]

buildSoloPlanPrompt == [kind |-> "plan_solo"]

buildDriverTurnPrompt(r, driver, navigator) ==
  [kind |-> "driver_turn", round |-> r, driver |-> driver, navigator |-> navigator]

buildSoloDriverTurnPrompt(driver, reviewer) ==
  [kind |-> "driver_turn_solo", driver |-> driver, reviewer |-> reviewer]

buildNavigatorReviewPrompt(r, driver, driverReport, pauseTriggered) ==
  [kind |-> "navigator_review", round |-> r, driver |-> driver,
   driverReport |-> driverReport, pauseTriggered |-> pauseTriggered]

buildSoloNavigatorReviewPrompt(driver, reviewer, driverReport, checkpoints) ==
  [kind |-> "navigator_review_solo", driver |-> driver, reviewer |-> reviewer,
   driverReport |-> driverReport, checkpointCount |-> checkpoints]

buildDriverDecisionPrompt(feedback) == [kind |-> "driver_decision", feedback |-> feedback]

buildFinalReviewPrompt == [kind |-> "final_review"]

buildJointSynthesisPrompt(reviewA, reviewB) ==
  [kind |-> "joint_synthesis", reviewA |-> reviewA, reviewB |-> reviewB]

\* The synchronous start of runPromptWithObservability: recordPromptStart,
\* then ModelWorker.runPrompt subscribes and awaits agent.prompt.
\* A start that sends the prompt to both workers at once and awaits the
\* answer of `actor`.
StartCallOfBoth(s, actor, promptKind, prompt, phase, tracked, nextPc) ==
  /\ Commit([recordPromptStart(recordPromptStart(s, actor, promptKind),
                               otherAgent(actor), promptKind) EXCEPT
               !.workers = [w \in AgentIds |-> [@[w] EXCEPT !.prompting = TRUE]]])
  /\ call' = [actor |-> actor, promptKind |-> promptKind, prompt |-> prompt,
              phase |-> phase, tracked |-> tracked]
  /\ pc' = nextPc
  /\ openToolCalls' = {}

\* A start that hands the tracker's onEvent to every invocation.
StartCallTrackingAll(s, actor, promptKind, prompt, phase, tracked, nextPc) ==
  /\ Commit([recordPromptStart(s, actor, promptKind) EXCEPT
               !.workers[actor].prompting = TRUE])
  /\ call' = [actor |-> actor, promptKind |-> promptKind, prompt |-> prompt,
              phase |-> phase, tracked |-> TRUE]
  /\ pc' = nextPc
  /\ openToolCalls' = {}

StartCall(s, actor, promptKind, prompt, phase, tracked, nextPc) ==
  /\ Commit([recordPromptStart(s, actor, promptKind) EXCEPT
               !.workers[actor].prompting = TRUE])
  /\ call' = [actor |-> actor, promptKind |-> promptKind, prompt |-> prompt,
              phase |-> phase, tracked |-> tracked]
  /\ pc' = nextPc
  /\ openToolCalls' = {}

\* The text a worker returns: each worker signs its private notes with its
\* own letter, so that the notes of A and of B are different texts.
AnswerOf(actor, response) ==
  IF "private_reflection" \in DOMAIN response /\ response.private_reflection # Absent
  THEN [response EXCEPT !.private_reflection = @ \o <<actor>>]
  ELSE response

\* The return of the awaited invocation with a response: recordPromptEnd.
Returned(stepPc) ==
  /\ pc = stepPc
  /\ openToolCalls = {}

\* agent.prompt has settled.
promptSettled(s, actor) == [s EXCEPT !.workers[actor].prompting = FALSE]

\* agent.prompt has settled on an assistant message with the stop reason
\* error or aborted.
promptFailed(s, actor) ==
  [s EXCEPT !.workers[actor].prompting = FALSE, !.workers[actor].failed = TRUE]

AfterReturn == record(promptSettled(Sys, call.actor), "prompt_end", call.actor)

(***************************************************************************)
(* run(): session start and planning.                                      *)
(***************************************************************************)
\* run() up to its first await: session_start, the task entry, then the
\* planning function sets both workers read-only and sends its first prompt.
Run ==
  /\ pc = "ready"
  /\ LET s1 == record(Sys, "session_start", "system")
         s2 == broadcastShared(s1, "task", "system", [text |-> "task"])
         s3 == setRole(setRole(s2, "A", "navigator"), "B", "navigator")
     IN IF config.executionMode = "solo_driver_then_reviewer"
        THEN StartCall(s3, "A", "plan_solo", buildSoloPlanPrompt, "planning", FALSE, "plan_solo")
        ELSE StartCall(s3, "A", "plan_draft", buildPlanDraftPrompt, "planning", FALSE, "plan_draft")
  /\ run' = NewRun
  /\ UNCHANGED <<config, toolCallsMade, trackerVars, locals, loopVars>>

PlanDraftReturns ==
  /\ Returned("plan_draft")
  /\ LET s1 == broadcastShared(AfterReturn, "plan_draft", "A", [text |-> "draft"])
     IN StartCall(s1, "B", "plan_feedback", buildPlanCritiquePrompt("draft"), "planning",
                  FALSE, "plan_feedback")
  /\ UNCHANGED <<config, toolCallsMade, trackerVars, locals, loopVars, run>>

PlanFeedbackReturns ==
  /\ Returned("plan_feedback")
  /\ LET s1 == broadcastShared(AfterReturn, "plan_feedback", "B", [text |-> "critique"])
     IN StartCall(s1, "A", "plan_revision", buildPlanRevisionPrompt("draft", "critique"),
                  "planning", FALSE, "plan_revision")
  /\ UNCHANGED <<config, toolCallsMade, trackerVars, locals, loopVars, run>>

(***************************************************************************)
(* runRound up to its first await, preceded by the round_start event of    *)
(* the loop.                                                               *)
(***************************************************************************)
StartRound(s, r, d) ==
  LET s1 == record(s, "round_start", "system")
      s2 == setRole(setRole(s1, d, "driver"), otherAgent(d), "navigator")
  IN /\ executionTracker' = createDriverExecutionTracker(config.pauseStrategy)
     /\ delivered' = NoDelivered
     /\ locals' = None
     /\ StartCall(s2, d, "driver_turn", buildDriverTurnPrompt(r, d, otherAgent(d)),
                  "driving", TRUE, "driver_turn")

\* finalReview up to its first await.
StartFinalReview(s) ==
  LET s1 == setRole(setRole(s, "A", "navigator"), "B", "navigator")
  IN /\ StartCall(s1, "A", "final_review", buildFinalReviewPrompt, "final_review", FALSE,
                  "final_review_A")
     /\ UNCHANGED <<trackerVars, locals>>

\* collaborativePlanning returns the agreed plan; runPairedExecution
\* initialises its locals and enters the loop.
PlanRevisionReturns ==
  /\ Returned("plan_revision")
  /\ round' = 1
  /\ driverId' = config.driverStartsAs
  /\ consecutiveRoundsWithDriver' = 0
  /\ consecutiveCheckpointsWithDriver' = 0
  /\ swapCount' = 0
  /\ checkpointCount' = 0
  /\ contributions' = [a \in AgentIds |-> contributionTemplate(a)]
  /\ rounds' = <<>>
  /\ LET s1 == broadcastShared(AfterReturn, "plan_agreed", "A", [text |-> "plan"])
     IN StartRound(s1, 1, config.driverStartsAs)
  /\ UNCHANGED <<config, toolCallsMade, run>>

(***************************************************************************)
(* runRound.                                                               *)
(***************************************************************************)
DriverTurnReturns(response) ==
  /\ Returned("driver_turn")
  /\ LET driverReport == parseDriverReport(response)
         s1 == broadcastShared(AfterReturn, "driver_report", driverId,
                               [round |-> round, status |-> driverReport.status])
         drivingStats == snapshot(executionTracker)
     IN /\ locals' = [driverReport |-> driverReport, drivingStats |-> drivingStats,
                           navigatorReview |-> None]
        /\ StartCall(s1, otherAgent(driverId), "navigator_review",
                     buildNavigatorReviewPrompt(round, driverId, driverReport.raw,
                                                drivingStats.pauseTriggered),
                     "navigation", FALSE,
                     "navigator_review")
  /\ UNCHANGED <<config, toolCallsMade, trackerVars, loopVars, run>>

NoDecision == [absent |-> TRUE]

RoundResult(r, d, stats, driverReport, navigatorReview, driverDecision) ==
  [round |-> r,
   driver |-> d,
   navigator |-> otherAgent(d),
   pauseTriggered |-> stats.pauseTriggered,
   checkpointCount |-> stats.checkpointCount,
   editWriteCallCount |-> stats.editWriteCallCount,
   estimatedWrittenBytes |-> stats.estimatedWrittenBytes,
   driverReport |-> driverReport,
   navigatorReview |-> navigatorReview,
   driverDecision |-> driverDecision]

\* The stop test without its status half: a loop that stops whenever the
\* navigator has no feedback.
shouldStopWithoutFeedback(result) == ~result.navigatorReview.hasFeedback

\* The stop test of the round loop.
shouldStop(result) ==
  result.driverReport.status = "done" /\ ~result.navigatorReview.hasFeedback

\* The last-round test written as a strict comparison: it never holds
\* inside the loop, which then ends by its condition, after the turn policy
\* has been consulted.
beyondMaxRounds(r, maxRounds) == r > maxRounds

\* The test that ends the loop after its last round.
reachedMaxRounds(r, maxRounds) == r = maxRounds

\* The end of an iteration that did not break: round += 1, then the loop
\* condition round <= maxRounds; the next iteration runs up to the first
\* await of runRound, and past the loop run() goes on to the final review.
NextIteration(s, r, d) ==
  /\ round' = r
  /\ IF r <= config.maxRounds
     THEN StartRound(s, r, d)
     ELSE StartFinalReview(s)

\* The body of the round loop after runRound has returned `result`, up to
\* the next await: the driver turn of the next round, or the first prompt of
\* the final review when the loop is left.
AfterRound(s, result) ==
  LET cr == consecutiveRoundsWithDriver + 1
      cc == consecutiveCheckpointsWithDriver + result.checkpointCount
      s1 == record(s, "round_end", "system")
      swapDecision == shouldSwapDriver(config.turnPolicy, result, cr, cc)
  IN
  /\ rounds' = Append(rounds, result)
  /\ checkpointCount' = checkpointCount + result.checkpointCount
  /\ contributions' =
       [contributions EXCEPT
          ![driverId].roundsDriven = @ + 1,
          ![driverId].checkpointsWhileDriving = @ + result.checkpointCount,
          ![driverId].editWriteCallCount = @ + result.editWriteCallCount,
          ![driverId].estimatedWrittenBytes = @ + result.estimatedWrittenBytes]
  /\ IF shouldStop(result)
     THEN /\ consecutiveRoundsWithDriver' = cr
          /\ consecutiveCheckpointsWithDriver' = cc
          /\ UNCHANGED <<round, driverId, swapCount>>
          /\ StartFinalReview(broadcastShared(s1, "loop_stop", "system",
                                [why |-> "done_no_feedback", round |-> round]))
     ELSE IF reachedMaxRounds(round, config.maxRounds)
     THEN /\ consecutiveRoundsWithDriver' = cr
          /\ consecutiveCheckpointsWithDriver' = cc
          /\ UNCHANGED <<round, driverId, swapCount>>
          /\ StartFinalReview(broadcastShared(s1, "loop_stop", "system",
                                [why |-> "max_rounds", round |-> config.maxRounds]))
     ELSE IF swapDecision.swap
     THEN LET s2 == broadcastShared(s1, "driver_swap", "system",
                      [from |-> driverId, to |-> otherAgent(driverId),
                       reason |-> swapDecision.reason])
              s3 == record(s2, "driver_swap", "system")
          IN /\ driverId' = otherAgent(driverId)
             /\ swapCount' = swapCount + 1
             /\ consecutiveRoundsWithDriver' = 0
             /\ consecutiveCheckpointsWithDriver' = 0
             /\ NextIteration(s3, round + 1, otherAgent(driverId))
     ELSE /\ consecutiveRoundsWithDriver' = cr
          /\ consecutiveCheckpointsWithDriver' = cc
          /\ UNCHANGED <<driverId, swapCount>>
          /\ NextIteration(s1, round + 1, driverId)

\* A round that asks for the driver's decision after every review.
alwaysNeedsDriverDecision(navigatorReview) == TRUE

\* The test that guards the driver decision of a round.
needsDriverDecision(navigatorReview) == navigatorReview.hasFeedback

\* The navigator's broadcasts of runRound.
\* A navigator whose feedback is broadcast only when there is some.
NavigatorBroadcastsFeedbackOnly(s, navigatorId, navigatorReview) ==
  LET s1 == appendPrivateMemory(s, navigatorId, navigatorReview.privateReflection)
      s2 == IF navigatorReview.hasFeedback
            THEN broadcastShared(s1, "navigator_feedback", navigatorId,
                                 [feedback |-> navigatorReview.publicFeedback])
            ELSE s1
  IN broadcastShared(s2, "navigator_handoff_signal", navigatorId,
                     [recommendation |-> navigatorReview.driverRecommendation])

NavigatorBroadcasts(s, navigatorId, navigatorReview) ==
  LET s1 == appendPrivateMemory(s, navigatorId, navigatorReview.privateReflection)
      s2 == IF navigatorReview.hasFeedback
            THEN broadcastShared(s1, "navigator_feedback", navigatorId,
                                 [feedback |-> navigatorReview.publicFeedback])
            ELSE broadcastShared(s1, "navigator_feedback", navigatorId,
                                 [feedback |-> Txt("NONE")])
  IN broadcastShared(s2, "navigator_handoff_signal", navigatorId,
                     [recommendation |-> navigatorReview.driverRecommendation])

NavigatorReviewReturns(response) ==
  /\ Returned("navigator_review")
  /\ \E navigatorReview \in {parseNavigatorReview(AnswerOf(call.actor, response))} :
     \E s1 \in {NavigatorBroadcasts(AfterReturn, otherAgent(driverId), navigatorReview)} :
        IF needsDriverDecision(navigatorReview)
        THEN /\ executionTracker' = setPhase(executionTracker, "feedback_resolution")
             /\ locals' = [locals EXCEPT !.navigatorReview = navigatorReview]
             /\ StartCall(s1, driverId, "driver_decision",
                          buildDriverDecisionPrompt(navigatorReview.publicFeedback),
                          "feedback_resolution", TRUE,
                          "driver_decision")
             /\ UNCHANGED <<delivered, loopVars>>
        ELSE \E result \in {RoundResult(round, driverId, snapshot(executionTracker),
                                         locals.driverReport, navigatorReview, NoDecision)} :
               AfterRound(s1, result)
  /\ UNCHANGED <<config, toolCallsMade, run>>

DriverDecisionReturns(response) ==
  /\ Returned("driver_decision")
  /\ \E driverDecision \in {parseDriverDecision(response)} :
     \E s1 \in {broadcastShared(AfterReturn, "driver_decision", driverId,
                                [decision |-> driverDecision.decision])} :
     \E result \in {RoundResult(round, driverId, snapshot(executionTracker),
                                  locals.driverReport, locals.navigatorReview,
                                  driverDecision)} :
        AfterRound(s1, result)
  /\ UNCHANGED <<config, toolCallsMade, run>>

(***************************************************************************)
(* buildSummary.  Percentages are kept in tenths of a percent:             *)
(* roundPercent(x) = Math.round(x * 10) / 10.  Math.round rounds a tie up; *)
(* the double (num / den) * 100 * 10 is the tie it stands for at every     *)
(* den below 80 (it first falls short of one at 23 / 80).                  *)
(***************************************************************************)
\* A share rounded to a whole percent.
roundPercentToWhole(num, den) == 10 * ((2 * 100 * num + den) \div (2 * den))

roundPercent(num, den) == (2 * 1000 * num + den) \div (2 * den)

\* A summary that prefers the rounds driven to the bytes written.
buildSummaryByRoundsDriven(contribs, checkpoints, swaps) ==
  LET totalEstimatedWrittenBytes ==
        contribs["A"].estimatedWrittenBytes + contribs["B"].estimatedWrittenBytes
      totalDrivenRounds == contribs["A"].roundsDriven + contribs["B"].roundsDriven
      share(a) ==
        IF totalDrivenRounds > 0
        THEN roundPercent(contribs[a].roundsDriven, totalDrivenRounds)
        ELSE IF totalEstimatedWrittenBytes > 0
        THEN roundPercent(contribs[a].estimatedWrittenBytes, totalEstimatedWrittenBytes)
        ELSE 0
  IN [checkpointCount |-> checkpoints,
      swapCount |-> swaps,
      totalEstimatedWrittenBytes |-> totalEstimatedWrittenBytes,
      contributions |-> [a \in AgentIds |-> [contribs[a] EXCEPT !.roughCodeSharePercent = share(a)]]]

\* A summary that counts the first round as a swap.
buildSummaryCountingTheStart(contribs, checkpoints, swaps) ==
  LET totalEstimatedWrittenBytes ==
        contribs["A"].estimatedWrittenBytes + contribs["B"].estimatedWrittenBytes
      totalDrivenRounds == contribs["A"].roundsDriven + contribs["B"].roundsDriven
      share(a) ==
        IF totalEstimatedWrittenBytes > 0
        THEN roundPercent(contribs[a].estimatedWrittenBytes, totalEstimatedWrittenBytes)
        ELSE IF totalDrivenRounds > 0
        THEN roundPercent(contribs[a].roundsDriven, totalDrivenRounds)
        ELSE 0
  IN [checkpointCount |-> checkpoints,
      swapCount |-> swaps + 1,
      totalEstimatedWrittenBytes |-> totalEstimatedWrittenBytes,
      contributions |-> [a \in AgentIds |-> [contribs[a] EXCEPT !.roughCodeSharePercent = share(a)]]]

buildSummary(contribs, checkpoints, swaps) ==
  LET totalEstimatedWrittenBytes ==
        contribs["A"].estimatedWrittenBytes + contribs["B"].estimatedWrittenBytes
      totalDrivenRounds == contribs["A"].roundsDriven + contribs["B"].roundsDriven
      share(a) ==
        IF totalEstimatedWrittenBytes > 0
        THEN roundPercent(contribs[a].estimatedWrittenBytes, totalEstimatedWrittenBytes)
        ELSE IF totalDrivenRounds > 0
        THEN roundPercent(contribs[a].roundsDriven, totalDrivenRounds)
        ELSE 0
  IN [checkpointCount |-> checkpoints,
      swapCount |-> swaps,
      totalEstimatedWrittenBytes |-> totalEstimatedWrittenBytes,
      contributions |-> [a \in AgentIds |-> [contribs[a] EXCEPT !.roughCodeSharePercent = share(a)]]]

(***************************************************************************)
(* The end of run(): the finally block calls observer.flush and awaits it. *)
(***************************************************************************)
\* SessionObserver.flush up to its first await: a flushed observer returns
\* its summary, any other queues the last line of the event stream.
flushCalled(o, status, errorMessage) ==
  LET called == [o EXCEPT !.flushCalls =
                            Append(@, [status |-> status, errorMessage |-> errorMessage])]
  IN IF o.flushedSummary # None THEN called ELSE queueEventStreamLine(called)

\* The summary flush builds once the queue of the event stream has drained.
summaryOf(o) ==
  [eventCount |-> o.eventIndex,
   promptCount |-> o.events["prompt_start"],
   toolExecutionCount |-> o.events["tool_execution_end"] + o.events["tool_execution_error"],
   toolExecutionErrorCount |-> o.events["tool_execution_error"],
   eventStreamWriteError |-> o.eventStreamWriteError]

\* SessionObserver.flush after the final log has been written.
flushed(o) ==
  LET fc == o.flushCalls[Len(o.flushCalls)]
  IN [o EXCEPT !.flushedSummary = summaryOf(o),
               !.finalLog = [status |-> fc.status,
                             errorMessage |-> fc.errorMessage,
                             eventLogWriteError |-> o.eventStreamWriteError,
                             events |-> o.events]]

BeginFlush(s, status, errorMessage) ==
  /\ Commit([s EXCEPT !.observer = flushCalled(@, status, errorMessage)])
  /\ call' = NoCall
  /\ openToolCalls' = {}
  /\ pc' = "flushing"

\* The try block of run() ends: resultCore is set, then finally.
CompleteRun(s, finalReview, contribs, checkpoints, swaps) ==
  /\ run' = [run EXCEPT !.hasResultCore = TRUE,
                        !.finalReview = finalReview,
                        !.summary = buildSummary(contribs, checkpoints, swaps)]
  /\ BeginFlush(s, run.status, "-")

(***************************************************************************)
(* finalReview.                                                            *)
(***************************************************************************)
FinalReviewAReturns(response) ==
  /\ Returned("final_review_A")
  /\ locals' = [reviewARaw |-> AnswerOf(call.actor, response)]
  /\ StartCall(AfterReturn, "B", "final_review", buildFinalReviewPrompt, "final_review",
               FALSE, "final_review_B")
  /\ UNCHANGED <<config, toolCallsMade, trackerVars, loopVars, run>>

FinalReviewBReturns(response) ==
  /\ Returned("final_review_B")
  /\ \E reviewA \in {parseNavigatorReview(locals.reviewARaw)} :
     \E reviewB \in {parseNavigatorReview(AnswerOf(call.actor, response))} :
     LET s1 == appendPrivateMemory(AfterReturn, "A", reviewA.privateReflection)
         s2 == appendPrivateMemory(s1, "B", reviewB.privateReflection)
         s3 == broadcastShared(s2, "final_review_A", "A", [feedback |-> reviewA.publicFeedback])
         s4 == broadcastShared(s3, "final_review_B", "B", [feedback |-> reviewB.publicFeedback])
     IN /\ locals' = [reviewA |-> reviewA, reviewB |-> reviewB]
        /\ StartCall(s4, "A", "joint_synthesis",
                     buildJointSynthesisPrompt(reviewA.publicFeedback, reviewB.publicFeedback),
                     "final_review", FALSE, "joint_synthesis")
  /\ UNCHANGED <<config, toolCallsMade, trackerVars, loopVars, run>>

JointSynthesisReturns(response) ==
  /\ Returned("joint_synthesis")
  /\ LET synthesis == parseJointVerdict(response)
         s1 == broadcastShared(AfterReturn, "joint_verdict", "A",
                               [verdict |-> synthesis.jointVerdict])
     IN CompleteRun(s1, [reviewA |-> locals.reviewA, reviewB |-> locals.reviewB,
                         jointVerdict |-> synthesis.jointVerdict],
                    contributions, checkpointCount, swapCount)
  /\ UNCHANGED <<config, toolCallsMade, trackerVars, locals, loopVars>>

(***************************************************************************)
(* solo_driver_then_reviewer.                                              *)
(***************************************************************************)
SoloPlanReturns ==
  /\ Returned("plan_solo")
  /\ round' = 1
  /\ driverId' = "A"
  /\ LET s1 == broadcastShared(AfterReturn, "plan_agreed", "A", [text |-> "plan"])
         s2 == setRole(setRole(s1, "A", "driver"), "B", "navigator")
         s3 == record(s2, "round_start", "system")
     IN /\ executionTracker' = createDriverExecutionTracker(config.pauseStrategy)
        /\ delivered' = NoDelivered
        /\ locals' = None
        /\ StartCall(s3, "A", "driver_turn_solo", buildSoloDriverTurnPrompt("A", "B"),
                     "driving", TRUE, "driver_turn_solo")
  /\ UNCHANGED <<config, toolCallsMade, run, consecutiveRoundsWithDriver,
                 consecutiveCheckpointsWithDriver, swapCount, checkpointCount,
                 contributions, rounds>>

SoloDriverTurnReturns(response) ==
  /\ Returned("driver_turn_solo")
  /\ LET driverReport == parseDriverReport(response)
         s1 == broadcastShared(AfterReturn, "driver_report", "A",
                               [round |-> 1, status |-> driverReport.status])
         drivingStats == snapshot(executionTracker)
     IN /\ locals' = [driverReport |-> driverReport, drivingStats |-> drivingStats,
                      navigatorReview |-> None]
        /\ StartCall(s1, "B", "navigator_review_solo",
                     buildSoloNavigatorReviewPrompt("A", "B", driverReport.raw,
                                                    drivingStats.checkpointCount),
                     "navigation", FALSE,
                     "navigator_review_solo")
  /\ UNCHANGED <<config, toolCallsMade, trackerVars, loopVars, run>>

\* A synthesis that approves only a review without feedback.
synthesizeSoloFinalReviewIgnoringDecision(roundResult, publicFeedback) ==
  LET jointVerdict == IF ~roundResult.navigatorReview.hasFeedback
                      THEN "APPROVED" ELSE "NEEDS_MORE_WORK"
  IN [reviewB |-> roundResult.navigatorReview,
      jointVerdict |-> jointVerdict,
      nextSteps |-> IF jointVerdict = "APPROVED" THEN Txt("NONE") ELSE publicFeedback]

synthesizeSoloFinalReview(roundResult, publicFeedback) ==
  LET accepted == roundResult.driverDecision # NoDecision
                  /\ roundResult.driverDecision.decision = "accept"
      jointVerdict == IF ~roundResult.navigatorReview.hasFeedback \/ accepted
                      THEN "APPROVED" ELSE "NEEDS_MORE_WORK"
  IN [reviewB |-> roundResult.navigatorReview,
      jointVerdict |-> jointVerdict,
      nextSteps |-> IF jointVerdict = "APPROVED" THEN Txt("NONE") ELSE publicFeedback]

\* A solo execution that returns no final review of its own, so that run()
\* goes on to finalReview.
SoloFinishThenFinalReview(s, roundResult, publicFeedback) ==
  LET s1 == record(s, "round_end", "system")
      s2 == broadcastShared(s1, "loop_stop", "system", [why |-> "solo", round |-> 1])
      s3 == setRole(setRole(s2, "A", "navigator"), "B", "navigator")
  IN /\ rounds' = <<roundResult>>
     /\ checkpointCount' = roundResult.checkpointCount
     /\ swapCount' = 0
     /\ StartCall(s3, "A", "final_review", buildFinalReviewPrompt, "final_review", FALSE,
                  "final_review_A")
     /\ UNCHANGED <<round, driverId, consecutiveRoundsWithDriver,
                    consecutiveCheckpointsWithDriver, contributions, run>>

\* The rest of runSoloDriverThenReviewerExecution once the round result is
\* built, and the rest of the try block of run().
SoloFinish(s, roundResult, publicFeedback) ==
  LET s1 == record(s, "round_end", "system")
      s2 == broadcastShared(s1, "loop_stop", "system", [why |-> "solo", round |-> 1])
      contribs == [a \in AgentIds |->
                     IF a = "A"
                     THEN [contributionTemplate(a) EXCEPT
                             !.roundsDriven = 1,
                             !.checkpointsWhileDriving = roundResult.checkpointCount,
                             !.editWriteCallCount = roundResult.editWriteCallCount,
                             !.estimatedWrittenBytes = roundResult.estimatedWrittenBytes]
                     ELSE contributionTemplate(a)]
      finalReview == synthesizeSoloFinalReview(roundResult, publicFeedback)
      s3 == broadcastShared(s2, "joint_verdict", "system",
                            [verdict |-> finalReview.jointVerdict])
  IN /\ rounds' = <<roundResult>>
     /\ checkpointCount' = roundResult.checkpointCount
     /\ swapCount' = 0
     /\ contributions' = contribs
     /\ CompleteRun(s3, finalReview, contribs, roundResult.checkpointCount, 0)
     /\ UNCHANGED <<round, driverId, consecutiveRoundsWithDriver,
                    consecutiveCheckpointsWithDriver>>

SoloNavigatorReviewReturns(response) ==
  /\ Returned("navigator_review_solo")
  /\ LET navigatorReview == parseNavigatorReview(AnswerOf(call.actor, response))
         s1 == NavigatorBroadcasts(AfterReturn, "B", navigatorReview)
     IN IF needsDriverDecision(navigatorReview)
        THEN /\ executionTracker' = setPhase(executionTracker, "feedback_resolution")
             /\ locals' = [locals EXCEPT !.navigatorReview = navigatorReview]
             /\ StartCall(s1, "A", "driver_decision",
                          buildDriverDecisionPrompt(navigatorReview.publicFeedback),
                          "feedback_resolution", TRUE,
                          "driver_decision_solo")
             /\ UNCHANGED <<delivered, loopVars, run>>
        ELSE /\ SoloFinish(s1, RoundResult(1, "A", snapshot(executionTracker),
                                           locals.driverReport, navigatorReview, NoDecision),
                           navigatorReview.publicFeedback)
             /\ UNCHANGED <<trackerVars, locals>>
  /\ UNCHANGED <<config, toolCallsMade>>

SoloDriverDecisionReturns(response) ==
  /\ Returned("driver_decision_solo")
  /\ LET driverDecision == parseDriverDecision(response)
         s1 == broadcastShared(AfterReturn, "driver_decision", "A",
                               [decision |-> driverDecision.decision])
     IN SoloFinish(s1, RoundResult(1, "A", snapshot(executionTracker),
                                   locals.driverReport, locals.navigatorReview, driverDecision),
                   locals.navigatorReview.publicFeedback)
  /\ UNCHANGED <<config, toolCallsMade, trackerVars, locals>>

(***************************************************************************)
(* Worker invocations: the event stream and the failure of runPrompt.      *)
(***************************************************************************)
CallPcs ==
  {"plan_draft", "plan_feedback", "plan_revision", "plan_solo",
   "driver_turn", "navigator_review", "driver_decision",
   "driver_turn_solo", "navigator_review_solo", "driver_decision_solo",
   "final_review_A", "final_review_B", "joint_synthesis"}

\* The tracker is given an event.  delivered counts the successful ends of
\* counted tools it was given, the times it reached its callback site, and
\* the phases the callback was called with (runRound passes onCheckpoint,
\* the solo execution does not).
TrackerReceives(event) ==
  LET r == onEvent(executionTracker, config.pauseStrategy, event)
      hasCallback == config.executionMode = "paired_turns"
      counted == /\ config.pauseStrategy.mode = "every_n_file_edits"
                 /\ event.type = "tool_execution_end"
                 /\ ~event.isError
                 /\ event.toolName \in config.pauseStrategy.countedTools
  IN /\ executionTracker' = r.tracker
     /\ delivered' =
          [successCounted |-> delivered.successCounted + (IF counted THEN 1 ELSE 0),
           fired |-> delivered.fired + (IF r.fired THEN 1 ELSE 0),
           callbacks |-> IF r.fired /\ hasCallback
                         THEN Append(delivered.callbacks, executionTracker.currentPhase)
                         ELSE delivered.callbacks]

\* A subscriber whose checkpoint callback steers the navigator.
DeliverEventSteeringNavigator(event) ==
  LET s1 == record(Sys, IF event.type = "tool_execution_end" /\ event.isError
                        THEN "tool_execution_error" ELSE event.type, call.actor)
      r == onEvent(executionTracker, config.pauseStrategy, event)
  IN IF call.tracked
     THEN /\ TrackerReceives(event)
          /\ Commit(IF r.fired /\ config.executionMode = "paired_turns"
                    THEN [s1 EXCEPT !.workers[otherAgent(call.actor)].steers =
                            Append(@, [phase |-> executionTracker.currentPhase,
                                       navigator |-> otherAgent(call.actor)])]
                    ELSE s1)
     ELSE /\ Commit(s1)
          /\ UNCHANGED trackerVars

\* A subscriber whose tracker has the steering callback in every mode.
DeliverEventSteeringInEveryMode(event) ==
  LET s1 == record(Sys, IF event.type = "tool_execution_end" /\ event.isError
                        THEN "tool_execution_error" ELSE event.type, call.actor)
      r == onEvent(executionTracker, config.pauseStrategy, event)
  IN IF call.tracked
     THEN /\ TrackerReceives(event)
          /\ Commit(IF r.fired
                    THEN [s1 EXCEPT !.workers[call.actor].steers =
                            Append(@, [phase |-> executionTracker.currentPhase,
                                       navigator |-> otherAgent(call.actor)])]
                    ELSE s1)
     ELSE /\ Commit(s1)
          /\ UNCHANGED trackerVars

\* The subscriber of runPromptWithObservability: recordAgentEvent, then the
\* tracker's onEvent when the call was given one; the callback of runRound
\* steers the driver.
DeliverEvent(event) ==
  LET s1 == record(Sys, IF event.type = "tool_execution_end" /\ event.isError
                        THEN "tool_execution_error" ELSE event.type, call.actor)
      r == onEvent(executionTracker, config.pauseStrategy, event)
  IN IF call.tracked
     THEN /\ TrackerReceives(event)
          /\ Commit(IF r.fired /\ config.executionMode = "paired_turns"
                    THEN [s1 EXCEPT !.workers[call.actor].steers =
                            Append(@, [phase |-> executionTracker.currentPhase,
                                       navigator |-> otherAgent(call.actor)])]
                    ELSE s1)
     ELSE /\ Commit(s1)
          /\ UNCHANGED trackerVars

ToolExecutionStart(input, budget) ==
  /\ pc \in CallPcs
  /\ toolCallsMade < budget
  /\ input.toolName \in workers[call.actor].tools
  /\ toolCallsMade' = toolCallsMade + 1
  /\ openToolCalls' = openToolCalls \cup {[id |-> toolCallsMade + 1, toolName |-> input.toolName]}
  /\ DeliverEvent(StartEvent(toolCallsMade + 1, input.toolName, input.args))
  /\ UNCHANGED <<config, pc, call, locals, loopVars, run>>

ToolExecutionEnd(c, isError) ==
  /\ pc \in CallPcs
  /\ c \in openToolCalls
  /\ openToolCalls' = openToolCalls \ {c}
  /\ DeliverEvent(EndEvent(c.id, c.toolName, isError))
  /\ UNCHANGED <<config, pc, call, toolCallsMade, locals, loopVars, run>>

\* A catch block that rethrows without recording the failure.
InvocationFailsUnrecorded ==
  /\ pc \in CallPcs
  /\ run' = [run EXCEPT !.status = "failed", !.failureMessage = "worker_failed"]
  /\ BeginFlush(promptFailed(Sys, call.actor), "completed", "-")
  /\ UNCHANGED <<config, toolCallsMade, trackerVars, locals, loopVars>>

\* A failed invocation that is issued again.
InvocationFailsAndRetries ==
  /\ pc \in CallPcs
  /\ Commit(recordPromptStart(promptFailed(Sys, call.actor), call.actor, call.promptKind))
  /\ openToolCalls' = {}
  /\ UNCHANGED <<config, pc, call, run, toolCallsMade, trackerVars, locals, loopVars>>

\* runPrompt throws (stop reason error or aborted, or agent.prompt rejects):
\* no prompt_end is recorded, every caller up to run() is left, and the
\* catch block of run() records session_error before the finally block.
\* A failure that is recorded and leaves run() suspended for good.
InvocationFailsAndHangs ==
  /\ pc \in CallPcs
  /\ Commit(record(promptFailed(Sys, call.actor), "session_error", "system"))
  /\ call' = NoCall
  /\ openToolCalls' = {}
  /\ pc' = "hung"
  /\ UNCHANGED <<config, run, toolCallsMade, trackerVars, locals, loopVars>>

InvocationFails ==
  /\ pc \in CallPcs
  /\ run' = [run EXCEPT !.status = "failed", !.failureMessage = "worker_failed"]
  /\ BeginFlush(record(promptFailed(Sys, call.actor), "session_error", "system"),
                "failed", "worker_failed")
  /\ UNCHANGED <<config, toolCallsMade, trackerVars, locals, loopVars>>

(***************************************************************************)
(* A write of the event stream fails (creating the directory or the file,  *)
(* or appending a line): the queue catches the error and keeps its         *)
(* message, and later lines are dropped.  The constructor queues the first *)
(* line, and flush awaits the queue before it builds the summary.          *)
(***************************************************************************)
EventStreamWriteFails ==
  /\ pc # "settled"
  /\ observer.flushedSummary = None
  /\ observer.eventStreamWriteError = "-"
  /\ observer' = [observer EXCEPT !.eventStreamWriteError = "stream_write_failed"]
  /\ UNCHANGED <<config, pc, call, toolVars, workers, sharedJournal, trackerVars,
                 locals, loopVars, run>>

(***************************************************************************)
(* SessionObserver.flush settles, and with it run().  Writing the final    *)
(* log can fail, in which case flush throws out of the finally block.      *)
(***************************************************************************)
FlushSettles(writeOk) ==
  /\ pc = "flushing"
  /\ LET returned == IF observer.flushedSummary # None THEN observer.flushedSummary
                     ELSE summaryOf(observer)
         \* run() after the finally block, flush having returned `flushed`
         settled == IF run.status = "failed"
                    THEN [run EXCEPT !.outcome = "rejected", !.error = run.failureMessage]
                    ELSE IF ~run.hasResultCore
                    THEN [run EXCEPT !.outcome = "rejected", !.error = "no_result"]
                    ELSE [run EXCEPT !.outcome = "resolved",
                                     !.result = [rounds |-> rounds,
                                                 finalReview |-> run.finalReview,
                                                 summary |-> run.summary,
                                                 sharedJournal |-> sharedJournal,
                                                 observability |-> returned]]
     IN IF observer.flushedSummary # None
        THEN /\ UNCHANGED observer
             /\ run' = settled
        ELSE IF writeOk
        THEN /\ observer' = flushed(observer)
             /\ run' = settled
        ELSE /\ UNCHANGED observer
             /\ run' = [run EXCEPT !.outcome = "rejected", !.error = "log_write_failed"]
  /\ pc' = "settled"
  /\ UNCHANGED <<config, call, toolVars, workers, sharedJournal, trackerVars, locals, loopVars>>

(***************************************************************************)
(* Runs of every kind: both execution modes, tool calls in every           *)
(* invocation, failures of invocations and of the final log write.         *)
(***************************************************************************)
Next ==
  \/ Run
  \/ PlanDraftReturns
  \/ PlanFeedbackReturns
  \/ PlanRevisionReturns
  \/ \E response \in DriverResponses : DriverTurnReturns(response)
  \/ \E response \in NavigatorResponses : NavigatorReviewReturns(response)
  \/ \E response \in DecisionResponses : DriverDecisionReturns(response)
  \/ \E response \in FinalReviewResponses : FinalReviewAReturns(response)
  \/ \E response \in FinalReviewResponses : FinalReviewBReturns(response)
  \/ \E response \in VerdictResponses : JointSynthesisReturns(response)
  \/ SoloPlanReturns
  \/ \E response \in DriverResponses : SoloDriverTurnReturns(response)
  \/ \E response \in NavigatorResponses : SoloNavigatorReviewReturns(response)
  \/ \E response \in DecisionResponses : SoloDriverDecisionReturns(response)
  \/ \E input \in ToolCallInputs : ToolExecutionStart(input, MaxToolCalls)
  \/ \E c \in openToolCalls, isError \in BOOLEAN : ToolExecutionEnd(c, isError)
  \/ InvocationFails
  \/ \E writeOk \in BOOLEAN : FlushSettles(writeOk)

Spec == Init /\ [][Next]_vars

(***************************************************************************)
(* Runs of the round loop: paired runs whose workers answer in every way   *)
(* the parser distinguishes and call no tools.                             *)
(***************************************************************************)
InitLoop == \E c \in LoopConfigs : InitWith(c)

NextLoop ==
  \/ Run
  \/ PlanDraftReturns
  \/ PlanFeedbackReturns
  \/ PlanRevisionReturns
  \/ \E response \in DriverResponses : DriverTurnReturns(response)
  \/ \E response \in NavigatorResponses : NavigatorReviewReturns(response)
  \/ \E response \in PolicyDecisionResponses : DriverDecisionReturns(response)
  \/ \E response \in FinalReviewResponses : FinalReviewAReturns(response)
  \/ \E response \in FinalReviewResponses : FinalReviewBReturns(response)
  \/ \E response \in PolicyVerdictResponses : JointSynthesisReturns(response)
  \/ FlushSettles(TRUE)

SpecLoop == InitLoop /\ [][NextLoop]_vars

(***************************************************************************)
(* run() called again on the same orchestrator, after the call before has  *)
(* settled: the fields of the instance (workers, sharedJournal, observer)  *)
(* are what that call left, the locals of run() are new.                   *)
(***************************************************************************)
RerunConfigs ==
  [executionMode : {"paired_turns"},
   maxRounds : {1},
   driverStartsAs : {"A"},
   pauseStrategy : {NoPause},
   turnPolicy : {AlternateEachRound}]

InitRerun == \E c \in RerunConfigs : InitWith(c)

TaskEntries(journal) == SelectSeq(journal, LAMBDA e : e.stage = "task")

\* A second call that starts on an empty journal.
RunAgainOnNewJournal ==
  /\ pc = "settled"
  /\ Len(TaskEntries(sharedJournal)) < MaxRuns
  /\ LET s1 == record(Sys, "session_start", "system")
         s2 == broadcastShared([s1 EXCEPT !.sharedJournal = <<>>], "task", "system",
                               [text |-> "task"])
         s3 == setRole(setRole(s2, "A", "navigator"), "B", "navigator")
     IN StartCall(s3, "A", "plan_draft", buildPlanDraftPrompt, "planning", FALSE, "plan_draft")
  /\ run' = NewRun
  /\ UNCHANGED <<config, toolCallsMade, trackerVars, locals, loopVars>>

RunAgain ==
  /\ pc = "settled"
  /\ Len(TaskEntries(sharedJournal)) < MaxRuns
  /\ LET s1 == record(Sys, "session_start", "system")
         s2 == broadcastShared(s1, "task", "system", [text |-> "task"])
         s3 == setRole(setRole(s2, "A", "navigator"), "B", "navigator")
     IN StartCall(s3, "A", "plan_draft", buildPlanDraftPrompt, "planning", FALSE, "plan_draft")
  /\ run' = NewRun
  /\ UNCHANGED <<config, toolCallsMade, trackerVars, locals, loopVars>>

NextRerun ==
  \/ Run
  \/ RunAgain
  \/ PlanDraftReturns
  \/ PlanFeedbackReturns
  \/ PlanRevisionReturns
  \/ \E response \in DriverResponses : DriverTurnReturns(response)
  \/ \E response \in NavigatorResponses : NavigatorReviewReturns(response)
  \/ \E response \in PolicyDecisionResponses : DriverDecisionReturns(response)
  \/ \E response \in FinalReviewResponses : FinalReviewAReturns(response)
  \/ \E response \in FinalReviewResponses : FinalReviewBReturns(response)
  \/ \E response \in PolicyVerdictResponses : JointSynthesisReturns(response)
  \/ InvocationFails
  \/ FlushSettles(TRUE)

SpecRerun == InitRerun /\ [][NextRerun]_vars

(***************************************************************************)
(* Runs under the sticky policy: the driver edits files, every successful  *)
(* edit fires a checkpoint.                                                *)
(***************************************************************************)
EditInputs == {[toolName |-> "edit", args |-> TextArgs(<<"a", "U+00E9">>)]}

InitSticky == \E c \in StickyConfigs : InitWith(c)

NextSticky ==
  \/ Run
  \/ PlanDraftReturns
  \/ PlanFeedbackReturns
  \/ PlanRevisionReturns
  \/ \E response \in ContinueResponses : DriverTurnReturns(response)
  \/ \E response \in PolicyNavigatorResponses : NavigatorReviewReturns(response)
  \/ \E response \in PolicyDecisionResponses : DriverDecisionReturns(response)
  \/ \E response \in FinalReviewResponses : FinalReviewAReturns(response)
  \/ \E response \in FinalReviewResponses : FinalReviewBReturns(response)
  \/ \E response \in PolicyVerdictResponses : JointSynthesisReturns(response)
  \/ \E input \in EditInputs : ToolExecutionStart(input, MaxToolCallsSticky)
  \/ \E c \in openToolCalls : ToolExecutionEnd(c, FALSE)
  \/ FlushSettles(TRUE)

SpecSticky == InitSticky /\ [][NextSticky]_vars

(***************************************************************************)
(* Runs under alternate_each_round.                                        *)
(***************************************************************************)
InitAlternate == \E c \in AlternateConfigs : InitWith(c)

NextAlternate ==
  \/ Run
  \/ PlanDraftReturns
  \/ PlanFeedbackReturns
  \/ PlanRevisionReturns
  \/ \E response \in PolicyDriverResponses : DriverTurnReturns(response)
  \/ \E response \in PolicyNavigatorResponses : NavigatorReviewReturns(response)
  \/ \E response \in PolicyDecisionResponses : DriverDecisionReturns(response)
  \/ \E response \in FinalReviewResponses : FinalReviewAReturns(response)
  \/ \E response \in FinalReviewResponses : FinalReviewBReturns(response)
  \/ \E response \in PolicyVerdictResponses : JointSynthesisReturns(response)
  \/ FlushSettles(TRUE)

SpecAlternate == InitAlternate /\ [][NextAlternate]_vars

(***************************************************************************)
(* Runs in which the driver of a round makes several edits.                *)
(***************************************************************************)
InitCheckpoints == \E c \in CheckpointConfigs : InitWith(c)

NextCheckpoints ==
  \/ Run
  \/ PlanDraftReturns
  \/ PlanFeedbackReturns
  \/ PlanRevisionReturns
  \/ \E response \in PolicyDriverResponses : DriverTurnReturns(response)
  \/ \E response \in PolicyNavigatorResponses : NavigatorReviewReturns(response)
  \/ \E response \in PolicyDecisionResponses : DriverDecisionReturns(response)
  \/ \E response \in FinalReviewResponses : FinalReviewAReturns(response)
  \/ \E response \in FinalReviewResponses : FinalReviewBReturns(response)
  \/ \E response \in PolicyVerdictResponses : JointSynthesisReturns(response)
  \/ \E input \in EditInputs : ToolExecutionStart(input, MaxToolCallsCheckpoints)
  \/ \E c \in openToolCalls : ToolExecutionEnd(c, FALSE)
  \/ FlushSettles(TRUE)

SpecCheckpoints == InitCheckpoints /\ [][NextCheckpoints]_vars

(***************************************************************************)
(* Runs of solo_driver_then_reviewer, under every setting of the options   *)
(* that only matter to paired runs; the driver edits files.                *)
(***************************************************************************)
InitSolo == \E c \in SoloConfigs : InitWith(c)

NextSolo ==
  \/ Run
  \/ SoloPlanReturns
  \/ \E response \in PolicyDriverResponses : SoloDriverTurnReturns(response)
  \/ \E response \in NavigatorResponses : SoloNavigatorReviewReturns(response)
  \/ \E response \in SoloDecisionResponses : SoloDriverDecisionReturns(response)
  \/ \E input \in EditInputs : ToolExecutionStart(input, MaxToolCallsSolo)
  \/ \E c \in openToolCalls : ToolExecutionEnd(c, FALSE)
  \/ FlushSettles(TRUE)

SpecSolo == InitSolo /\ [][NextSolo]_vars

(***************************************************************************)
(* Solo runs whose driver makes several edits, some of which fail, under a *)
(* strategy every_n_file_edits.                                            *)
(***************************************************************************)
SoloPausedConfigs ==
  [executionMode : {"solo_driver_then_reviewer"},
   maxRounds : {1},
   driverStartsAs : {"A"},
   pauseStrategy : {EveryN(n, defaultCountedTools) : n \in 1..MaxEditsPerPause},
   turnPolicy : {AlternateEachRound}]

InitSoloPaused == \E c \in SoloPausedConfigs : InitWith(c)

NextSoloPaused ==
  \/ Run
  \/ SoloPlanReturns
  \/ \E response \in PolicyDriverResponses : SoloDriverTurnReturns(response)
  \/ \E response \in NavigatorResponses : SoloNavigatorReviewReturns(response)
  \/ \E response \in SoloDecisionResponses : SoloDriverDecisionReturns(response)
  \/ \E input \in EditInputs : ToolExecutionStart(input, MaxToolCallsSoloPaused)
  \/ \E c \in openToolCalls, isError \in BOOLEAN : ToolExecutionEnd(c, isError)
  \/ FlushSettles(TRUE)

SpecSoloPaused == InitSoloPaused /\ [][NextSoloPaused]_vars

(***************************************************************************)
(* Runs whose observer fails to write: a line of the event stream at any   *)
(* time, the final log at the end; an invocation may fail as well.         *)
(***************************************************************************)
InitObserver == \E c \in ObserverConfigs : InitWith(c)

NextObserver ==
  \/ Run
  \/ PlanDraftReturns
  \/ PlanFeedbackReturns
  \/ PlanRevisionReturns
  \/ \E response \in PolicyDriverResponses : DriverTurnReturns(response)
  \/ \E response \in PolicyNavigatorResponses : NavigatorReviewReturns(response)
  \/ \E response \in PolicyDecisionResponses : DriverDecisionReturns(response)
  \/ \E response \in FinalReviewResponses : FinalReviewAReturns(response)
  \/ \E response \in FinalReviewResponses : FinalReviewBReturns(response)
  \/ \E response \in PolicyVerdictResponses : JointSynthesisReturns(response)
  \/ InvocationFails
  \/ EventStreamWriteFails
  \/ \E writeOk \in BOOLEAN : FlushSettles(writeOk)

SpecObserver == InitObserver /\ [][NextObserver]_vars

(***************************************************************************)
(* Runs that are replayed: paired runs in which the driver edits a file,   *)
(* the workers answer in the ways the loop distinguishes, and an           *)
(* invocation may fail.                                                    *)
(***************************************************************************)
InitReplay == \E c \in ReplayConfigs : InitWith(c)

NextReplay ==
  \/ Run
  \/ PlanDraftReturns
  \/ PlanFeedbackReturns
  \/ PlanRevisionReturns
  \/ \E response \in PolicyDriverResponses : DriverTurnReturns(response)
  \/ \E response \in PolicyNavigatorResponses : NavigatorReviewReturns(response)
  \/ \E response \in PolicyDecisionResponses : DriverDecisionReturns(response)
  \/ \E response \in FinalReviewResponses : FinalReviewAReturns(response)
  \/ \E response \in FinalReviewResponses : FinalReviewBReturns(response)
  \/ \E response \in PolicyVerdictResponses : JointSynthesisReturns(response)
  \/ \E input \in EditInputs : ToolExecutionStart(input, MaxToolCallsReplay)
  \/ \E c \in openToolCalls : ToolExecutionEnd(c, FALSE)
  \/ InvocationFails
  \/ FlushSettles(TRUE)

SpecReplay == InitReplay /\ [][NextReplay]_vars

(***************************************************************************)
(* Paired runs with a checkpoint every second counted edit, whose edits    *)
(* succeed or fail.                                                        *)
(***************************************************************************)
CounterConfigs ==
  [executionMode : {"paired_turns"},
   maxRounds : 1..MaxRoundsCounter,
   driverStartsAs : {"A"},
   pauseStrategy : {EveryN(2, defaultCountedTools)},
   turnPolicy : {AlternateEachRound}]

InitCounter == \E c \in CounterConfigs : InitWith(c)

NextCounter ==
  \/ Run
  \/ PlanDraftReturns
  \/ PlanFeedbackReturns
  \/ PlanRevisionReturns
  \/ \E response \in PolicyDriverResponses : DriverTurnReturns(response)
  \/ \E response \in PolicyNavigatorResponses : NavigatorReviewReturns(response)
  \/ \E response \in PolicyDecisionResponses : DriverDecisionReturns(response)
  \/ \E response \in FinalReviewResponses : FinalReviewAReturns(response)
  \/ \E response \in FinalReviewResponses : FinalReviewBReturns(response)
  \/ \E response \in PolicyVerdictResponses : JointSynthesisReturns(response)
  \/ \E input \in EditInputs : ToolExecutionStart(input, MaxToolCallsCounter)
  \/ \E c \in openToolCalls, isError \in BOOLEAN : ToolExecutionEnd(c, isError)
  \/ FlushSettles(TRUE)

SpecCounter == InitCounter /\ [][NextCounter]_vars

(***************************************************************************)
(* Paired runs of several rounds whose drivers edit and write files of     *)
(* different sizes, under a sticky policy: a worker drives up to two       *)
(* rounds in a row, and then again after the other has driven.             *)
(***************************************************************************)
TotalsConfigs ==
  [executionMode : {"paired_turns"},
   maxRounds : 1..MaxRoundsTotals,
   driverStartsAs : {"A"},
   pauseStrategy : {EveryN(1, defaultCountedTools)},
   turnPolicy : {Sticky(2, 2)}]

TotalsInputs ==
  EditInputs \cup {[toolName |-> "write", args |-> TextArgs(<<"U+20AC", "a">>)]}

\* The answers of a navigator that always has feedback.
FeedbackResponses == {NavigatorResponse(Txt("fix"), r) : r \in {Absent, Txt("handoff")}}

InitTotals == \E c \in TotalsConfigs : InitWith(c)

NextTotals ==
  \/ Run
  \/ PlanDraftReturns
  \/ PlanFeedbackReturns
  \/ PlanRevisionReturns
  \/ \E response \in ContinueResponses : DriverTurnReturns(response)
  \/ \E response \in FeedbackResponses : NavigatorReviewReturns(response)
  \/ \E response \in PolicyDecisionResponses : DriverDecisionReturns(response)
  \/ \E response \in FinalReviewResponses : FinalReviewAReturns(response)
  \/ \E response \in FinalReviewResponses : FinalReviewBReturns(response)
  \/ \E response \in PolicyVerdictResponses : JointSynthesisReturns(response)
  \/ \E input \in TotalsInputs : ToolExecutionStart(input, MaxToolCallsTotals)
  \/ \E c \in openToolCalls : ToolExecutionEnd(c, FALSE)
  \/ FlushSettles(TRUE)

SpecTotals == InitTotals /\ [][NextTotals]_vars

(***************************************************************************)
(* Runs in which every worker calls tools, the navigator included: read is *)
(* a counted tool, which the navigator's tool set allows.  An invocation   *)
(* may fail.                                                               *)
(***************************************************************************)
SubscribedConfigs ==
  [executionMode : {"paired_turns"},
   maxRounds : 1..MaxRoundsSubscribed,
   driverStartsAs : {"A"},
   pauseStrategy : {EveryN(1, {"edit", "read"})},
   turnPolicy : {AlternateEachRound}]

SubscribedInputs == EditInputs \cup {[toolName |-> "read", args |-> NoArgs]}

InitSubscribed == \E c \in SubscribedConfigs : InitWith(c)

NextSubscribed ==
  \/ Run
  \/ PlanDraftReturns
  \/ PlanFeedbackReturns
  \/ PlanRevisionReturns
  \/ \E response \in PolicyDriverResponses : DriverTurnReturns(response)
  \/ \E response \in PolicyNavigatorResponses : NavigatorReviewReturns(response)
  \/ \E response \in PolicyDecisionResponses : DriverDecisionReturns(response)
  \/ \E response \in FinalReviewResponses : FinalReviewAReturns(response)
  \/ \E response \in FinalReviewResponses : FinalReviewBReturns(response)
  \/ \E response \in PolicyVerdictResponses : JointSynthesisReturns(response)
  \/ \E input \in SubscribedInputs : ToolExecutionStart(input, MaxToolCallsSubscribed)
  \/ \E c \in openToolCalls : ToolExecutionEnd(c, FALSE)
  \/ InvocationFails
  \/ FlushSettles(TRUE)

SpecSubscribed == InitSubscribed /\ [][NextSubscribed]_vars

(***************************************************************************)
(* Runs of both modes in which every invocation returns or fails and the   *)
(* writes of the observer complete: an invocation in flight is eventually  *)
(* settled by its worker, and a flush in flight by the file system.        *)
(***************************************************************************)
FairConfigs ==
  [executionMode : ExecutionModes,
   maxRounds : 1..MaxRoundsFair,
   driverStartsAs : {"A"},
   pauseStrategy : {EveryN(1, defaultCountedTools)},
   turnPolicy : {Sticky(2, 1)}]

InitFair == \E c \in FairConfigs : InitWith(c)

\* await worker.runPrompt(...) returns or throws
InvocationSettles ==
  \/ InvocationFails
  \/ PlanDraftReturns
  \/ PlanFeedbackReturns
  \/ PlanRevisionReturns
  \/ \E response \in PolicyDriverResponses : DriverTurnReturns(response)
  \/ \E response \in PolicyNavigatorResponses : NavigatorReviewReturns(response)
  \/ \E response \in PolicyDecisionResponses : DriverDecisionReturns(response)
  \/ \E response \in FinalReviewResponses : FinalReviewAReturns(response)
  \/ \E response \in FinalReviewResponses : FinalReviewBReturns(response)
  \/ \E response \in PolicyVerdictResponses : JointSynthesisReturns(response)
  \/ SoloPlanReturns
  \/ \E response \in PolicyDriverResponses : SoloDriverTurnReturns(response)
  \/ \E response \in PolicyNavigatorResponses : SoloNavigatorReviewReturns(response)
  \/ \E response \in SoloDecisionResponses : SoloDriverDecisionReturns(response)

\* await this.observer.flush(...) returns or throws
FlushCompletes == \E writeOk \in BOOLEAN : FlushSettles(writeOk)

NextFair ==
  \/ Run
  \/ InvocationSettles
  \/ \E input \in EditInputs : ToolExecutionStart(input, MaxToolCallsFair)
  \/ \E c \in openToolCalls : ToolExecutionEnd(c, FALSE)
  \/ FlushCompletes

SpecFair ==
  InitFair /\ [][NextFair]_vars /\ WF_vars(InvocationSettles) /\ WF_vars(FlushCompletes)

(***************************************************************************)
(* buildSummary on its own: run() has the contributions its execution      *)
(* returned, of every size up to MaxBytes and MaxDriven (an agent that     *)
(* wrote bytes drove a round; no round is driven when maxRounds is 0), and *)
(* builds the summary of the run.                                          *)
(***************************************************************************)
SummaryContributions ==
  {[a \in AgentIds |->
      [contributionTemplate(a) EXCEPT !.estimatedWrittenBytes = bytes[a],
                                      !.roundsDriven = driven[a]]] :
     bytes \in [AgentIds -> 0..MaxBytes],
     driven \in [AgentIds -> 0..MaxDriven]}

InitSummary ==
  \E contribs \in SummaryContributions :
    /\ \A a \in AgentIds :
         contribs[a].estimatedWrittenBytes > 0 => contribs[a].roundsDriven > 0
    /\ config = [executionMode |-> "paired_turns", maxRounds |-> MaxDriven,
                 driverStartsAs |-> "A", pauseStrategy |-> NoPause,
                 turnPolicy |-> AlternateEachRound]
    /\ pc = "execution_returned"
    /\ call = NoCall
    /\ openToolCalls = {}
    /\ toolCallsMade = 0
    /\ workers = [a \in AgentIds |-> NewWorker]
    /\ sharedJournal = <<>>
    /\ observer = NewObserver
    /\ executionTracker = None
    /\ delivered = NoDelivered
    /\ locals = None
    /\ round = 0
    /\ driverId = "A"
    /\ consecutiveRoundsWithDriver = 0
    /\ consecutiveCheckpointsWithDriver = 0
    /\ swapCount = 0
    /\ checkpointCount = 0
    /\ contributions = contribs
    /\ rounds = <<>>
    /\ run = NewRun

\* const summary = this.buildSummary(execution.contributions, ...)
Summarise ==
  /\ pc = "execution_returned"
  /\ pc' = "summarised"
  /\ run' = [run EXCEPT !.summary = buildSummary(contributions, checkpointCount, swapCount)]
  /\ UNCHANGED <<config, call, toolVars, sysVars, trackerVars, locals, loopVars>>

NextSummary == Summarise

SpecSummary == InitSummary /\ [][NextSummary]_vars

(***************************************************************************)
(* The parsers on spelled-out responses.  A response is a run of at most   *)
(* MaxSegments pieces; runRound hands the navigator's response to          *)
(* parseNavigatorReview and the driver's to parseDriverDecision.           *)
(***************************************************************************)
RECURSIVE Flatten(_)
Flatten(pieces) ==
  IF pieces = <<>> THEN <<>> ELSE Head(pieces) \o Flatten(Tail(pieces))

TextsOf(segments) ==
  {Flatten(pieces) : pieces \in UNION {[1..n -> segments] : n \in 0..MaxSegments}}

NavigatorSegments ==
  {<<"<public_feedback>">>, <<"</public_feedback>">>, Txt("None"), Txt("fix"),
   <<".">>, <<"!">>, <<" ">>}

DecisionSegments ==
  {<<"<decision>">>, <<"<DECISION>">>, <<"</decision>">>, Txt("Accept"), Txt("reject"),
   <<" ">>, <<"<justification>">> \o Txt("ok") \o <<"</justification>">>}

InitAt(at, raw) ==
  /\ config = [executionMode |-> "paired_turns", maxRounds |-> 1,
               driverStartsAs |-> "A", pauseStrategy |-> NoPause,
               turnPolicy |-> AlternateEachRound]
  /\ pc = at
  /\ call = NoCall
  /\ openToolCalls = {}
  /\ toolCallsMade = 0
  /\ workers = [a \in AgentIds |-> NewWorker]
  /\ sharedJournal = <<>>
  /\ observer = NewObserver
  /\ executionTracker = None
  /\ delivered = NoDelivered
  /\ locals = raw
  /\ round = 1
  /\ driverId = "A"
  /\ consecutiveRoundsWithDriver = 0
  /\ consecutiveCheckpointsWithDriver = 0
  /\ swapCount = 0
  /\ checkpointCount = 0
  /\ contributions = [a \in AgentIds |-> contributionTemplate(a)]
  /\ rounds = <<>>
  /\ run = NewRun

InitParser ==
  \/ \E text \in TextsOf(NavigatorSegments) :
        InitAt("navigator_review_raw", [navigatorReviewRaw |-> Response(text)])
  \/ \E text \in TextsOf(DecisionSegments) :
        InitAt("driver_decision_raw", [driverDecisionRaw |-> Response(text)])

\* const navigatorReview = parseNavigatorReview(navigatorReviewRaw)
ParseNavigatorReview ==
  /\ pc = "navigator_review_raw"
  /\ pc' = "navigator_review_parsed"
  /\ locals' = [navigatorReview |-> parseNavigatorReview(locals.navigatorReviewRaw)]
  /\ UNCHANGED <<config, call, toolVars, sysVars, trackerVars, loopVars, run>>

\* driverDecision = parseDriverDecision(driverDecisionRaw)
ParseDriverDecision ==
  /\ pc = "driver_decision_raw"
  /\ pc' = "driver_decision_parsed"
  /\ locals' = [driverDecision |-> parseDriverDecision(locals.driverDecisionRaw)]
  /\ UNCHANGED <<config, call, toolVars, sysVars, trackerVars, loopVars, run>>

NextParser == ParseNavigatorReview \/ ParseDriverDecision

SpecParser == InitParser /\ [][NextParser]_vars

(***************************************************************************)
(* A SessionObserver in the hands of a caller that records events and      *)
(* awaits one flush after another, as the observer's test and the command  *)
(* line's error handler do.  locals keeps the number of record calls and   *)
(* what each flush returned (Threw when the final log was not written).    *)
(***************************************************************************)
CallerEvents == {"session_error", "prompt_start", "tool_execution_end"}

FlushStatuses == {"completed", "failed"}

InitSealed == InitAt("observing", [recordCalls |-> 0, returned |-> <<>>])

\* observer.record({ ... })
CallerRecords(name) ==
  /\ pc \in {"observing", "flushing"}
  /\ locals.recordCalls < MaxRecords
  /\ Commit(record(Sys, name, "system"))
  /\ locals' = [locals EXCEPT !.recordCalls = @ + 1]
  /\ UNCHANGED <<config, pc, call, toolVars, trackerVars, loopVars, run>>

\* await observer.flush(status), up to its first await
CallerFlushes(status) ==
  /\ pc = "observing"
  /\ Len(observer.flushCalls) < MaxFlushes
  /\ BeginFlush(Sys, status, "-")
  /\ UNCHANGED <<config, toolCallsMade, trackerVars, locals, loopVars, run>>

\* await observer.flush(status), from its first await to its return
CallerFlushSettles(writeOk) ==
  /\ pc = "flushing"
  /\ pc' = "observing"
  /\ IF observer.flushedSummary # None
     THEN /\ UNCHANGED observer
          /\ locals' = [locals EXCEPT !.returned = Append(@, observer.flushedSummary)]
     ELSE IF writeOk
     THEN /\ observer' = flushed(observer)
          /\ locals' = [locals EXCEPT !.returned = Append(@, summaryOf(observer))]
     ELSE /\ UNCHANGED observer
          /\ locals' = [locals EXCEPT !.returned = Append(@, Threw)]
  /\ UNCHANGED <<config, call, toolVars, workers, sharedJournal, trackerVars, loopVars, run>>

NextSealed ==
  \/ \E name \in CallerEvents : CallerRecords(name)
  \/ \E status \in FlushStatuses : CallerFlushes(status)
  \/ \E writeOk \in BOOLEAN : CallerFlushSettles(writeOk)
  \/ EventStreamWriteFails

SpecSealed == InitSealed /\ [][NextSealed]_vars

(***************************************************************************)
(* The event-stream file.  queueEventStreamLine chains the write of a line *)
(* to this.eventStreamWriteQueue with then(...).catch(...), so a write     *)
(* starts when the one queued before it has ended, whether that one wrote  *)
(* its line or failed.  locals.queued are the lines handed to the chain,   *)
(* locals.pending those whose write has not run yet, locals.file the lines *)
(* of the file.  The caller is sequential, as cli.ts is: it records and    *)
(* flushes between its awaits.                                             *)
(***************************************************************************)
StartLine == [type |-> "meta", name |-> "event_stream_start"]

EndLine == [type |-> "meta", name |-> "event_stream_end"]

EventLine(name, index) == [type |-> "event", name |-> name, index |-> index]

WriteOutcomes == {"written", "not_created", "not_appended"}

InitStream ==
  InitAt("observing", [recordCalls |-> 0, returned |-> <<>>,
                       queued |-> <<StartLine>>, pending |-> <<StartLine>>,
                       file |-> <<>>, eventStreamInitialized |-> FALSE])

\* the chain after a call that has left the observer as `after`
QueuedBy(after, line) ==
  IF after.eventStreamLines > observer.eventStreamLines
  THEN [locals EXCEPT !.queued = Append(@, line), !.pending = Append(@, line)]
  ELSE locals

\* observer.record({ ... }): the line carries index: this.eventIndex
StreamRecords(name) ==
  /\ pc = "observing"
  /\ locals.recordCalls < MaxStreamRecords
  /\ \E s \in {record(Sys, name, "system")} :
       /\ Commit(s)
       /\ locals' = [QueuedBy(s.observer, EventLine(name, observer.eventIndex))
                       EXCEPT !.recordCalls = @ + 1]
  /\ UNCHANGED <<config, pc, call, toolVars, trackerVars, loopVars, run>>

\* await observer.flush(status), up to its first await
StreamFlushes(status) ==
  /\ pc = "observing"
  /\ Len(observer.flushCalls) < MaxStreamFlushes
  /\ BeginFlush(Sys, status, "-")
  /\ locals' = QueuedBy(flushCalled(observer, status, "-"), EndLine)
  /\ UNCHANGED <<config, toolCallsMade, trackerVars, loopVars, run>>

\* Writes that are started as they are queued and end in any order.
StreamWritesUnchained(outcome) ==
  /\ locals.pending # <<>>
  /\ outcome = "not_created" => ~locals.eventStreamInitialized
  /\ \E i \in DOMAIN locals.pending :
       locals' = [locals EXCEPT
                    !.pending = SubSeq(@, 1, i - 1) \o SubSeq(@, i + 1, Len(@)),
                    !.eventStreamInitialized = @ \/ outcome # "not_created",
                    !.file = IF outcome = "written"
                             THEN (IF locals.eventStreamInitialized THEN @ ELSE <<>>)
                                  \o <<locals.pending[i]>>
                             ELSE IF outcome = "not_appended" /\ ~locals.eventStreamInitialized
                             THEN <<>>
                             ELSE @]
  /\ observer' = IF outcome = "written" THEN observer
                 ELSE [observer EXCEPT !.eventStreamWriteError = "stream_write_failed"]
  /\ UNCHANGED <<config, pc, call, toolVars, workers, sharedJournal, trackerVars,
                 loopVars, run>>

\* The next link of the chain runs: the first write creates the directory
\* and the empty file, every write appends its line; a rejection is caught
\* and kept as eventStreamWriteError.
StreamWrites(outcome) ==
  /\ locals.pending # <<>>
  /\ outcome = "not_created" => ~locals.eventStreamInitialized
  /\ locals' = [locals EXCEPT
                  !.pending = Tail(@),
                  !.eventStreamInitialized = @ \/ outcome # "not_created",
                  !.file = IF outcome = "written"
                           THEN (IF locals.eventStreamInitialized THEN @ ELSE <<>>)
                                \o <<Head(locals.pending)>>
                           ELSE IF outcome = "not_appended" /\ ~locals.eventStreamInitialized
                           THEN <<>>
                           ELSE @]
  /\ observer' = IF outcome = "written" THEN observer
                 ELSE [observer EXCEPT !.eventStreamWriteError = "stream_write_failed"]
  /\ UNCHANGED <<config, pc, call, toolVars, workers, sharedJournal, trackerVars,
                 loopVars, run>>

\* flush from await this.eventStreamWriteQueue to its return
StreamFlushSettles(writeOk) ==
  /\ observer.flushedSummary # None \/ locals.pending = <<>>
  /\ CallerFlushSettles(writeOk)

NextStream ==
  \/ \E name \in CallerEvents : StreamRecords(name)
  \/ \E status \in FlushStatuses : StreamFlushes(status)
  \/ \E outcome \in WriteOutcomes : StreamWrites(outcome)
  \/ \E writeOk \in BOOLEAN : StreamFlushSettles(writeOk)

SpecStream == InitStream /\ [][NextStream]_vars

(***************************************************************************)
(* resolveApiKeyForProvider for providers whose configured value is an     *)
(* op:// reference.  The module keeps opRefValueCache, opRefPendingCache   *)
(* and opInstallChecked; a resolution is the promise of the async function *)
(* that resolveOpReference starts: it awaits ensureOpInstalled ("checking" *)
(* while op --version runs, "checked" when it had succeeded before),       *)
(* then op read ("reading"), and is "fulfilled" or "rejected" at its end.  *)
(* locals.calls is what each call returned: the cached value, or the       *)
(* promise of a resolution.                                                *)
(***************************************************************************)
OpReferences == {"op://a", "op://b"}

NoResolution == 0

InitResolve ==
  InitAt("resolving",
         [opRefValueCache |-> [ref \in OpReferences |-> FALSE],
          opRefPendingCache |-> [ref \in OpReferences |-> NoResolution],
          opInstallChecked |-> FALSE,
          resolutions |-> <<>>,
          calls |-> <<>>])

InFlightStages == {"checking", "checked", "reading"}

\* resolveOpReference(reference), up to its return: the cached value, the
\* pending promise, or a new promise, stored as pending once the async
\* function has reached its first await.
resolveOpReference(l, reference) ==
  IF l.opRefValueCache[reference]
  THEN [l EXCEPT !.calls = Append(@, [got |-> "value", reference |-> reference])]
  ELSE IF l.opRefPendingCache[reference] # NoResolution
  THEN [l EXCEPT !.calls = Append(@, [got |-> "promise", reference |-> reference,
                                      resolution |-> l.opRefPendingCache[reference]])]
  ELSE LET r == Len(l.resolutions) + 1
       IN [l EXCEPT
             !.resolutions = Append(@, [reference |-> reference,
                                        stage |-> IF l.opInstallChecked
                                                  THEN "checked" ELSE "checking"]),
             !.opRefPendingCache[reference] = r,
             !.calls = Append(@, [got |-> "promise", reference |-> reference,
                                  resolution |-> r])]

\* await resolveApiKeyForProvider(provider), up to its first await
ResolveApiKeyForProvider(reference) ==
  /\ pc = "resolving"
  /\ Len(locals.calls) < MaxResolveCalls
  /\ locals' = resolveOpReference(locals, reference)
  /\ UNCHANGED <<config, pc, call, toolVars, sysVars, trackerVars, loopVars, run>>

\* op --version ends: ensureOpInstalled returns or throws.  Its throw is
\* outside the try block of the resolution.
EnsureOpInstalledSettles(r, installed) ==
  /\ pc = "resolving"
  /\ r \in DOMAIN locals.resolutions
  /\ locals.resolutions[r].stage = "checking"
  /\ locals' = IF installed
               THEN [locals EXCEPT !.opInstallChecked = TRUE,
                                   !.resolutions[r].stage = "reading"]
               ELSE [locals EXCEPT !.resolutions[r].stage = "rejected"]
  /\ UNCHANGED <<config, pc, call, toolVars, sysVars, trackerVars, loopVars, run>>

\* ensureOpInstalled had nothing to check: the resolution goes on to
\* execFileAsync("op", ["read", reference]).
OpReadStarts(r) ==
  /\ pc = "resolving"
  /\ r \in DOMAIN locals.resolutions
  /\ locals.resolutions[r].stage = "checked"
  /\ locals' = [locals EXCEPT !.resolutions[r].stage = "reading"]
  /\ UNCHANGED <<config, pc, call, toolVars, sysVars, trackerVars, loopVars, run>>

ReadOutcomes == {"value", "empty", "failed"}

\* op read ends: a value that is not empty is cached; the finally block
\* deletes the pending entry of the reference.
OpReadSettles(r, outcome) ==
  /\ pc = "resolving"
  /\ r \in DOMAIN locals.resolutions
  /\ locals.resolutions[r].stage = "reading"
  /\ LET reference == locals.resolutions[r].reference
     IN locals' = [locals EXCEPT
                     !.opRefValueCache[reference] = @ \/ outcome = "value",
                     !.opRefPendingCache[reference] = NoResolution,
                     !.resolutions[r].stage = IF outcome = "value"
                                              THEN "fulfilled" ELSE "rejected"]
  /\ UNCHANGED <<config, pc, call, toolVars, sysVars, trackerVars, loopVars, run>>

NextResolve ==
  \/ \E reference \in OpReferences : ResolveApiKeyForProvider(reference)
  \/ \E r \in 1..MaxResolveCalls, installed \in BOOLEAN : EnsureOpInstalledSettles(r, installed)
  \/ \E r \in 1..MaxResolveCalls : OpReadStarts(r)
  \/ \E r \in 1..MaxResolveCalls, outcome \in ReadOutcomes : OpReadSettles(r, outcome)

SpecResolve == InitResolve /\ [][NextResolve]_vars

(***************************************************************************)
(* A tracker on its own: created for a pause strategy, then given the      *)
(* events of tool calls, which start, overlap and end with or without an   *)
(* error, and moved to the feedback resolution phase by its owner.         *)
(***************************************************************************)
TrackerToolInputs ==
  {[toolName |-> "edit", args |-> TextArgs(<<"a", "U+00E9">>)],
   [toolName |-> "write", args |-> TextArgs(<<"U+20AC">>)],
   [toolName |-> "bash", args |-> NoArgs]}

InitTracker ==
  \E c \in TrackerConfigs :
    /\ InitWith(c)
    /\ pc = "ready"

TrackerCreated ==
  /\ pc = "ready"
  /\ pc' = "tracking"
  /\ executionTracker' = createDriverExecutionTracker(config.pauseStrategy)
  /\ delivered' = NoDelivered
  /\ UNCHANGED <<config, call, toolVars, sysVars, locals, loopVars, run>>

TrackerToolStart(input) ==
  /\ pc = "tracking"
  /\ toolCallsMade < MaxTrackerCalls
  /\ toolCallsMade' = toolCallsMade + 1
  /\ openToolCalls' = openToolCalls \cup {[id |-> toolCallsMade + 1, toolName |-> input.toolName]}
  /\ TrackerReceives(StartEvent(toolCallsMade + 1, input.toolName, input.args))
  /\ UNCHANGED <<config, pc, call, sysVars, locals, loopVars, run>>

TrackerToolEnd(c, isError) ==
  /\ pc = "tracking"
  /\ c \in openToolCalls
  /\ openToolCalls' = openToolCalls \ {c}
  /\ TrackerReceives(EndEvent(c.id, c.toolName, isError))
  /\ UNCHANGED <<config, pc, call, toolCallsMade, sysVars, locals, loopVars, run>>

TrackerSetPhase ==
  /\ pc = "tracking"
  /\ executionTracker.currentPhase = "driving"
  /\ executionTracker' = setPhase(executionTracker, "feedback_resolution")
  /\ UNCHANGED <<config, pc, call, toolVars, sysVars, delivered, locals, loopVars, run>>

NextTracker ==
  \/ TrackerCreated
  \/ \E input \in TrackerToolInputs : TrackerToolStart(input)
  \/ \E c \in openToolCalls, isError \in BOOLEAN : TrackerToolEnd(c, isError)
  \/ TrackerSetPhase

SpecTracker == InitTracker /\ [][NextTracker]_vars

(***************************************************************************)
(* Two trackers that are given the same tool events, one created with a    *)
(* strategy every_n_file_edits (executionTracker) and one with the         *)
(* strategy none (locals.strategyNone).  Every call ends after it started. *)
(* locals also keeps, for the calls started, the size in UTF-8 bytes of    *)
(* the text written, and the edit and write calls that ended without an    *)
(* error.                                                                  *)
(***************************************************************************)
EstimateConfigs == {c \in TrackerConfigs : c.pauseStrategy.mode = "every_n_file_edits"}

\* args of edit ({path, oldText, newText}) and of write ({path, content}),
\* with the number of UTF-8 bytes of the text
EstimateInputs ==
  {[toolName |-> "edit", args |-> TextArgs(<<"a", "U+00E9">>), utf8Bytes |-> 3],
   [toolName |-> "edit",
    args |-> [isObject |-> TRUE, content |-> <<"a">>, newText |-> NotAString],
    utf8Bytes |-> 0],
   [toolName |-> "write", args |-> TextArgs(<<"U+20AC", "a">>), utf8Bytes |-> 4],
   [toolName |-> "write", args |-> NoArgs, utf8Bytes |-> 0],
   [toolName |-> "bash", args |-> TextArgs(<<"a">>), utf8Bytes |-> 1]}

InitEstimates ==
  \E c \in EstimateConfigs :
    /\ InitWith(c)
    /\ pc = "ready"

TrackersCreated ==
  /\ pc = "ready"
  /\ pc' = "estimating"
  /\ executionTracker' = createDriverExecutionTracker(config.pauseStrategy)
  /\ delivered' = NoDelivered
  /\ locals' = [strategyNone |-> createDriverExecutionTracker(NoPause),
                estimates |-> EmptyMap, succeeded |-> {}]
  /\ UNCHANGED <<config, call, toolVars, sysVars, loopVars, run>>

EstimateToolStart(input) ==
  /\ pc = "estimating"
  /\ toolCallsMade < MaxEstimateCalls
  /\ toolCallsMade' = toolCallsMade + 1
  /\ openToolCalls' = openToolCalls \cup {[id |-> toolCallsMade + 1, toolName |-> input.toolName]}
  /\ \E event \in {StartEvent(toolCallsMade + 1, input.toolName, input.args)} :
       /\ TrackerReceives(event)
       /\ locals' = [locals EXCEPT
                       !.strategyNone = onEvent(@, NoPause, event).tracker,
                       !.estimates = MapSet(@, event.toolCallId, input.utf8Bytes)]
  /\ UNCHANGED <<config, pc, call, sysVars, loopVars, run>>

EstimateToolEnd(c, isError) ==
  /\ pc = "estimating"
  /\ c \in openToolCalls
  /\ openToolCalls' = openToolCalls \ {c}
  /\ \E event \in {EndEvent(c.id, c.toolName, isError)} :
       /\ TrackerReceives(event)
       /\ locals' = [locals EXCEPT
                       !.strategyNone = onEvent(@, NoPause, event).tracker,
                       !.succeeded = IF ~isError /\ c.toolName \in {"edit", "write"}
                                     THEN @ \cup {c.id} ELSE @]
  /\ UNCHANGED <<config, pc, call, toolCallsMade, sysVars, loopVars, run>>

NextEstimates ==
  \/ TrackersCreated
  \/ \E input \in EstimateInputs : EstimateToolStart(input)
  \/ \E c \in openToolCalls, isError \in BOOLEAN : EstimateToolEnd(c, isError)

SpecEstimates == InitEstimates /\ [][NextEstimates]_vars

(***************************************************************************)
(* Properties.  The history of a run is read from rounds (the RoundResult  *)
(* of every round executed so far) and from the shared journal.            *)
(***************************************************************************)
LoopPcs == {"driver_turn", "navigator_review", "driver_decision"}

\* run() has left the round loop with at least one round executed.
LoopLeft == pc \notin LoopPcs /\ rounds # <<>>

LastRound == rounds[Len(rounds)]

DoneNoFeedback(result) ==
  result.driverReport.status = "done" /\ ~result.navigatorReview.hasFeedback

\* The responses whose status tag reads done, up to case and blanks.
ExplicitDone(raw) == raw.status \in {Txt("done"), Txt("Done"), Txt(" DONE ")}

DriverChanges == Cardinality({i \in 1..(Len(rounds) - 1) : rounds[i + 1].driver # rounds[i].driver})

JournalCount(stage) ==
  Cardinality({i \in DOMAIN sharedJournal : sharedJournal[i].stage = stage})

\* No swap was decided after the last round executed: every swap counted or
\* broadcast lies between two rounds, and the driver is still the last one.
NoSwapAfterLastRound ==
  /\ driverId = LastRound.driver
  /\ swapCount = DriverChanges
  /\ JournalCount("driver_swap") = DriverChanges

\* C1: in paired_turns a round whose driver reports done and whose navigator
\* has no feedback (NONE up to case and closing punctuation) is the last
\* round executed, whatever maxRounds is, and no swap follows it: the driver
\* is not flipped, the swap counter not incremented, no swap broadcast.  A
\* loop left before round maxRounds was left on an explicit done status.
C1_EarlyStop ==
  /\ \A i \in 1..Len(rounds) :
        DoneNoFeedback(rounds[i]) =>
          /\ i = Len(rounds)
          /\ pc \notin LoopPcs
          /\ round = i
          /\ NoSwapAfterLastRound
  /\ (LoopLeft /\ Len(rounds) < config.maxRounds) =>
        /\ ExplicitDone(LastRound.driverReport.raw)
        /\ DoneNoFeedback(LastRound)
        /\ sharedJournal[Len(sharedJournal)].stage # "driver_swap"

\* C1 happens: round 1 of a run of 3 rounds ended on status " DONE " and the
\* feedback NONE. with a handoff recommended, under the sticky policy, and
\* the run is in its final review with the driver it started with.
C1_Witness ==
  /\ config.maxRounds = 3
  /\ config.turnPolicy.mode = "same_driver_until_navigator_signoff"
  /\ Len(rounds) = 1
  /\ rounds[1].driverReport.raw.status = Txt(" DONE ")
  /\ rounds[1].navigatorReview.raw.public_feedback = Txt("NONE.")
  /\ rounds[1].navigatorReview.driverRecommendation = "handoff"
  /\ pc = "final_review_B"
  /\ driverId = config.driverStartsAs
  /\ swapCount = 0

StopRounds == {i \in 1..Len(rounds) : DoneNoFeedback(rounds[i])}

FirstStopRound == CHOOSE i \in StopRounds : \A j \in StopRounds : i <= j

Min(a, b) == IF a <= b THEN a ELSE b

\* C2: in paired_turns the number of rounds executed is min(maxRounds, r*),
\* r* the first round with status done and no feedback: the RoundResults
\* never outnumber maxRounds, the loop goes on while neither is reached, and
\* at round maxRounds it stops whatever the status, with no swap decided.
C2_RoundsExecuted ==
  /\ Len(rounds) <= config.maxRounds
  /\ pc \in LoopPcs =>
        /\ round = Len(rounds) + 1
        /\ round <= config.maxRounds
        /\ StopRounds = {}
  /\ LoopLeft =>
        Len(rounds) = IF StopRounds = {} THEN config.maxRounds
                      ELSE Min(config.maxRounds, FirstStopRound)
  /\ Len(rounds) = config.maxRounds =>
        /\ pc \notin LoopPcs
        /\ NoSwapAfterLastRound
        /\ sharedJournal[Len(sharedJournal)].stage # "driver_swap"

\* C2 happens: a run of 3 rounds under alternate_each_round has executed 3
\* rounds, none of them a stop round, the last one with status continue,
\* and has settled with 2 swaps.
C2_Witness ==
  /\ config.maxRounds = 3
  /\ config.turnPolicy.mode = "alternate_each_round"
  /\ Len(rounds) = 3
  /\ StopRounds = {}
  /\ rounds[3].driverReport.status = "continue"
  /\ swapCount = 2
  /\ pc = "settled"

(***************************************************************************)
(* The turn policy, read from the history.                                 *)
(***************************************************************************)
\* The number of consecutive rounds, round i the last of them, driven by the
\* driver of round i, and the checkpoints fired in them.
RECURSIVE RoundsInARow(_)
RoundsInARow(i) ==
  IF i > 1 /\ rounds[i - 1].driver = rounds[i].driver THEN 1 + RoundsInARow(i - 1) ELSE 1

RECURSIVE CheckpointsInARow(_)
CheckpointsInARow(i) ==
  rounds[i].checkpointCount
    + (IF i > 1 /\ rounds[i - 1].driver = rounds[i].driver THEN CheckpointsInARow(i - 1) ELSE 0)

\* Round i was followed by another round, which may still be in progress.
HasNextRound(i) == i < Len(rounds) \/ (i = Len(rounds) /\ pc \in LoopPcs)

NextDriver(i) == IF i < Len(rounds) THEN rounds[i + 1].driver ELSE driverId

FollowedRounds == {i \in 1..Len(rounds) : HasNextRound(i)}

Handoff(i) == rounds[i].navigatorReview.driverRecommendation = "handoff"

RoundsCapReached(i) == RoundsInARow(i) >= config.turnPolicy.maxConsecutiveRounds

CheckpointsCapReached(i) == CheckpointsInARow(i) >= config.turnPolicy.maxConsecutiveCheckpoints

\* What the driver of the round in progress has behind it since it became
\* driver.
RoundsBehindDriver ==
  IF rounds # <<>> /\ LastRound.driver = driverId THEN RoundsInARow(Len(rounds)) ELSE 0

CheckpointsBehindDriver ==
  IF rounds # <<>> /\ LastRound.driver = driverId THEN CheckpointsInARow(Len(rounds)) ELSE 0

SwapEntries == SelectSeq(sharedJournal, LAMBDA e : e.stage = "driver_swap")

\* The rounds after which the driver changed, in order.
SwapRounds ==
  SelectSeq([i \in 1..Len(rounds) |-> i],
            LAMBDA i : HasNextRound(i) /\ NextDriver(i) # rounds[i].driver)

\* The reason the policy engine is to report after round i.
ExpectedReason(i) ==
  IF Handoff(i) THEN Reason("navigator_requested_handoff", 0)
  ELSE IF RoundsCapReached(i)
  THEN Reason("safety_cap_rounds", config.turnPolicy.maxConsecutiveRounds)
  ELSE IF CheckpointsCapReached(i)
  THEN Reason("safety_cap_checkpoints", config.turnPolicy.maxConsecutiveCheckpoints)
  ELSE Reason("continue_same_driver", 0)

\* C4: under the sticky policy the reason reported after a round is
\* navigator_requested_handoff when handoff was recommended, whatever the
\* caps; otherwise safety_cap_rounds_N when the rounds cap is reached,
\* whatever the checkpoints; otherwise safety_cap_checkpoints_N; otherwise
\* continue_same_driver with no swap.  Every swap is broadcast with that
\* reason.
C4_ReasonPriority ==
  /\ \A i \in FollowedRounds :
        /\ shouldSwapDriver(config.turnPolicy, rounds[i], RoundsInARow(i), CheckpointsInARow(i))
             = [swap |-> ExpectedReason(i).kind # "continue_same_driver",
                reason |-> ExpectedReason(i)]
        /\ (NextDriver(i) = rounds[i].driver) <=> (ExpectedReason(i).kind = "continue_same_driver")
  /\ Len(SwapEntries) = Len(SwapRounds)
  /\ \A k \in 1..Len(SwapRounds) :
        SwapEntries[k].content =
          [from |-> rounds[SwapRounds[k]].driver,
           to |-> otherAgent(rounds[SwapRounds[k]].driver),
           reason |-> ExpectedReason(SwapRounds[k])]

\* C4 happens: with maxConsecutiveRounds = 3, A drove rounds 1 and 2, the
\* navigator recommended handoff on round 2 only, and B drives round 3
\* after a swap broadcast with reason navigator_requested_handoff.
C4_Witness ==
  /\ config.turnPolicy.maxConsecutiveRounds = 3
  /\ Len(rounds) >= 2
  /\ rounds[1].driver = "A" /\ rounds[2].driver = "A"
  /\ ~Handoff(1) /\ Handoff(2)
  /\ rounds[1].checkpointCount + rounds[2].checkpointCount = 0
  /\ HasNextRound(2) /\ NextDriver(2) = "B"
  /\ Len(SwapEntries) >= 1
  /\ SwapEntries[1].content.reason = Reason("navigator_requested_handoff", 0)

Odd(i) == i % 2 = 1

\* The driver of round i when the driver changes after every round.
AlternatingDriver(i) ==
  IF Odd(i) THEN config.driverStartsAs ELSE otherAgent(config.driverStartsAs)

\* C5: under alternate_each_round consecutive rounds have different
\* drivers whatever the navigator recommends: the drivers are start, other,
\* start, other, ..., and a run of R rounds ends with a swap count of R - 1.
C5_Alternate ==
  /\ \A i \in 1..Len(rounds) : rounds[i].driver = AlternatingDriver(i)
  /\ \A i \in FollowedRounds : NextDriver(i) # rounds[i].driver
  /\ pc \in LoopPcs => driverId = AlternatingDriver(Len(rounds) + 1) /\ swapCount = Len(rounds)
  /\ LoopLeft => swapCount = Len(rounds) - 1
  /\ run.outcome = "resolved" => run.result.summary.swapCount = Len(run.result.rounds) - 1

\* C5 happens: a run of 4 rounds that started with A has settled with the
\* drivers A, B, A, B and a swap count of 3, the navigator having
\* recommended handoff in one round and not in another.
C5_Witness ==
  /\ config.driverStartsAs = "A"
  /\ Len(rounds) = 4
  /\ [i \in 1..4 |-> rounds[i].driver] = <<"A", "B", "A", "B">>
  /\ Handoff(1) /\ ~Handoff(2)
  /\ run.outcome = "resolved"
  /\ run.result.summary.swapCount = 3

\* C6: under the sticky policy with maxConsecutiveRounds = N no agent
\* drives more than N rounds in a row, the round in progress included,
\* whatever the navigator recommends.
C6_RoundsCap ==
  /\ \A i \in 1..Len(rounds) : RoundsInARow(i) <= config.turnPolicy.maxConsecutiveRounds
  /\ pc \in LoopPcs => RoundsBehindDriver + 1 <= config.turnPolicy.maxConsecutiveRounds

\* C6 happens: with maxConsecutiveRounds = 2, A drove rounds 1 and 2 with
\* no handoff recommended and no checkpoint, and B drives round 3.
C6_Witness ==
  /\ config.turnPolicy.maxConsecutiveRounds = 2
  /\ Len(rounds) = 3
  /\ [i \in 1..3 |-> rounds[i].driver] = <<"A", "A", "B">>
  /\ ~Handoff(1) /\ ~Handoff(2)
  /\ rounds[1].checkpointCount + rounds[2].checkpointCount = 0

\* C7 as stated: under the sticky policy, in every reachable state the
\* checkpoints fired for one driver since it last became driver do not
\* exceed maxConsecutiveCheckpoints.
C7_HardLimit ==
  /\ \A i \in 1..Len(rounds) :
        CheckpointsInARow(i) <= config.turnPolicy.maxConsecutiveCheckpoints
  /\ pc \in LoopPcs =>
        CheckpointsBehindDriver + executionTracker.checkpointCount
          <= config.turnPolicy.maxConsecutiveCheckpoints

\* C7: under the sticky policy maxConsecutiveCheckpoints is tested between
\* rounds: a driver that has accumulated maxConsecutiveCheckpoints or more
\* checkpoints since it became driver does not drive the next round, so no
\* round starts with a driver that has reached the cap, and the count of a
\* driver exceeds the cap by less than the checkpoints of its last round.
C7_SwapAtRoundEnd ==
  /\ \A i \in FollowedRounds : CheckpointsCapReached(i) => NextDriver(i) # rounds[i].driver
  /\ pc \in LoopPcs =>
        CheckpointsBehindDriver < config.turnPolicy.maxConsecutiveCheckpoints
  /\ \A i \in 1..Len(rounds) :
        CheckpointsInARow(i) - rounds[i].checkpointCount
          < config.turnPolicy.maxConsecutiveCheckpoints

\* C7 happens: with maxConsecutiveCheckpoints = 1, A fired 2 checkpoints in
\* round 1 with no handoff recommended, and B drives round 2 after a swap
\* with reason safety_cap_checkpoints_1.
C7_Witness ==
  /\ config.turnPolicy = Sticky(2, 1)
  /\ Len(rounds) = 1
  /\ rounds[1].driver = "A"
  /\ rounds[1].checkpointCount = 2
  /\ ~Handoff(1)
  /\ pc = "driver_turn"
  /\ driverId = "B"
  /\ Len(SwapEntries) = 1
  /\ SwapEntries[1].content.reason = Reason("safety_cap_checkpoints", 1)

(***************************************************************************)
(* The tracker.                                                            *)
(***************************************************************************)
Tracking == pc = "tracking"

\* C8: a tracker with strategy every_n_file_edits and editsPerPause = N,
\* given any events of which K are successful ends of counted tools, has
\* checkpointCount = K \div N: it has counted exactly those K events, fired
\* once per checkpoint, and set pauseTriggered iff it fired.
C8_CheckpointArithmetic ==
  (Tracking /\ config.pauseStrategy.mode = "every_n_file_edits") =>
    /\ executionTracker.checkpointCount
         = delivered.successCounted \div config.pauseStrategy.editsPerPause
    /\ executionTracker.countedEdits = delivered.successCounted
    /\ delivered.fired = executionTracker.checkpointCount
    /\ Len(delivered.callbacks) = executionTracker.checkpointCount
    /\ executionTracker.pauseTriggered <=> executionTracker.checkpointCount > 0

\* C8 happens: with editsPerPause = 2 and only edit counted, 4 tool calls
\* have ended, 3 of them successful edits, and 1 checkpoint has fired.
C8_Witness ==
  /\ Tracking
  /\ config.pauseStrategy = EveryN(2, {"edit"})
  /\ toolCallsMade = 4
  /\ openToolCalls = {}
  /\ delivered.successCounted = 3
  /\ executionTracker.checkpointCount = 1

\* C9: a tracker with pause strategy none never fires a checkpoint, whatever
\* events it is given: checkpointCount stays 0, pauseTriggered stays false
\* and the callback is never called.
C9_NoPause ==
  (Tracking /\ config.pauseStrategy.mode = "none") =>
    /\ executionTracker.checkpointCount = 0
    /\ ~executionTracker.pauseTriggered
    /\ delivered.fired = 0
    /\ delivered.callbacks = <<>>

\* C9 happens: a tracker with strategy none has seen 4 successful edits or
\* writes.
C9_Witness ==
  /\ Tracking
  /\ config.pauseStrategy.mode = "none"
  /\ executionTracker.editWriteCallCount = 4
  /\ executionTracker.checkpointCount = 0

(***************************************************************************)
(* The outcome of run().                                                   *)
(***************************************************************************)
Settled == pc = "settled"

\* C10: when a worker invocation fails, run() rejects and returns no
\* result; before it settles, session_error has been recorded and the
\* observer has been flushed, once, with status failed and the error
\* message, which the final log carries if its write succeeds.  A run that
\* resolves returns a complete result and was flushed with status
\* completed; any other run rejects without a result.
C10_FailureOrCompleteResult ==
  /\ run.status = "failed" =>
        /\ pc \in {"flushing", "settled"}
        /\ ~run.hasResultCore
        /\ run.outcome # "resolved"
        /\ observer.flushCalls = <<[status |-> "failed", errorMessage |-> run.failureMessage]>>
        /\ IF observer.finalLog = None
           THEN observer.events["session_error"] = 1
           ELSE /\ observer.finalLog.status = "failed"
                /\ observer.finalLog.errorMessage = run.failureMessage
                /\ observer.finalLog.events["session_error"] = 1
  /\ (Settled /\ run.status = "failed") =>
        /\ run.outcome = "rejected"
        /\ observer.finalLog # None => run.error = run.failureMessage
  /\ Settled => run.outcome \in {"resolved", "rejected"}
  /\ run.outcome = "rejected" => run.result = None
  /\ run.outcome = "resolved" =>
        /\ Settled
        /\ run.status = "completed"
        /\ run.result # None
        /\ run.result.rounds = rounds /\ rounds # <<>>
        /\ run.result.finalReview # None
        /\ run.result.summary # None
        /\ run.result.sharedJournal = sharedJournal
        /\ run.result.observability = observer.flushedSummary
        /\ observer.flushedSummary # None
        /\ observer.flushCalls = <<[status |-> "completed", errorMessage |-> "-"]>>
        /\ observer.finalLog.status = "completed"
        /\ observer.events["session_error"] = 0

\* C10 happens: a paired run rejected with the worker's error after an
\* invocation failed once round 1 was complete; the final log was written
\* with status failed and holds the session_error event.
C10_Witness ==
  /\ Settled
  /\ config.executionMode = "paired_turns"
  /\ run.status = "failed"
  /\ run.outcome = "rejected"
  /\ run.error = "worker_failed"
  /\ run.result = None
  /\ Len(rounds) = 1
  /\ observer.finalLog # None
  /\ observer.finalLog.status = "failed"
  /\ observer.finalLog.events["session_error"] = 1


(***************************************************************************)
(* Failures of invocations.                                                *)
(***************************************************************************)
SomeInvocationFailed == \E w \in AgentIds : workers[w].failed

\* C11: once a worker invocation has failed, no further invocation is
\* issued (the prompt log of the observer does not grow, no invocation is in
\* flight, no agent is prompting) and the shared journal gets no further
\* entry: every step that ends in a state with a failed invocation leaves
\* the prompt log and the journal as they were.
C11_NothingAfterFailure ==
  [][(\E w \in AgentIds : workers'[w].failed) =>
       /\ observer'.prompts = observer.prompts
       /\ sharedJournal' = sharedJournal
       /\ call' = NoCall
       /\ pc' \notin CallPcs
       /\ \A w \in AgentIds : ~workers'[w].prompting]_vars

\* C11 happens: the navigator review of round 1 failed after the driver
\* reported, and the run has settled: the last prompt is still that review
\* and the last journal entry is still the driver report.
C11_Witness ==
  /\ Settled
  /\ SomeInvocationFailed
  /\ run.outcome = "rejected"
  /\ observer.prompts # <<>>
  /\ observer.prompts[Len(observer.prompts)].promptKind = "navigator_review"
  /\ sharedJournal[Len(sharedJournal)].stage = "driver_report"


(***************************************************************************)
(* Failures of the observer's writes.                                      *)
(***************************************************************************)
WorkflowCompleted == run.hasResultCore

FinalLogWriteFailed == Settled /\ observer.flushCalls # <<>> /\ observer.finalLog = None

\* C12: a write of the observer that fails never aborts the session: when
\* run() has settled and its workflow had completed, it has returned a
\* result, whether or not the event stream or the final log could be
\* written, and a failure of the event stream is the write-error field of
\* the summary in that result.
C12_SinkFailureNeverAborts ==
  (Settled /\ WorkflowCompleted) =>
    /\ run.outcome = "resolved"
    /\ run.result # None
    /\ observer.eventStreamWriteError # "-" =>
         run.result.observability.eventStreamWriteError = observer.eventStreamWriteError

\* The part of C12 that holds: when the final log was written, a completed
\* workflow returns its result, and a failed write of the event stream is
\* the write-error field of its summary and of the final log.
C12_EventStreamFailureIsSoft ==
  (Settled /\ WorkflowCompleted /\ ~FinalLogWriteFailed) =>
    /\ run.outcome = "resolved"
    /\ run.result.observability.eventStreamWriteError = observer.eventStreamWriteError
    /\ observer.finalLog.eventLogWriteError = observer.eventStreamWriteError

\* C12 fails: every invocation of a paired run returned and the joint
\* verdict was broadcast, then the final log could not be written, and
\* run() rejected with the write error instead of returning the result.
C12_Witness ==
  /\ Settled
  /\ WorkflowCompleted
  /\ FinalLogWriteFailed
  /\ sharedJournal[Len(sharedJournal)].stage = "joint_verdict"
  /\ run.outcome = "rejected"
  /\ run.error = "log_write_failed"
  /\ run.result = None


(***************************************************************************)
(* The shared journal and the conversations of the workers.                *)
(***************************************************************************)
\* The shared-context messages appended to the conversation of worker w, in
\* the order of their arrival.
SharedContextOf(w) ==
  LET shared == SelectSeq(workers[w].messages, LAMBDA m : m.tag = "SHARED CONTEXT")
  IN [i \in 1..Len(shared) |-> shared[i].body]

RenderedJournal == [i \in 1..Len(sharedJournal) |-> formatSharedEntry(sharedJournal[i])]

IsPrefix(a, b) == Len(a) <= Len(b) /\ SubSeq(b, 1, Len(a)) = a

\* C13: in every reachable state the shared-context messages delivered to
\* worker A and those delivered to worker B are, entry for entry and in the
\* same order, the renderings of the entries of the shared journal; and
\* every step leaves the journal as it was or appends to it.
C13_SameJournalForBoth ==
  /\ [](\A w \in AgentIds : SharedContextOf(w) = RenderedJournal)
  /\ [][IsPrefix(sharedJournal, sharedJournal')]_vars

\* C13 happens: a round has been executed, the journal holds the navigator's
\* feedback after the driver's report, and the navigator's conversation
\* holds a private memory among the shared entries.
C13_Witness ==
  /\ rounds # <<>>
  /\ \E i \in 1..Len(sharedJournal), j \in 1..Len(sharedJournal) :
       /\ i < j
       /\ sharedJournal[i].stage = "driver_report"
       /\ sharedJournal[j].stage = "navigator_feedback"
  /\ Len(workers[rounds[1].navigator].messages) > Len(sharedJournal)
  /\ \A w \in AgentIds : SharedContextOf(w) = RenderedJournal


(***************************************************************************)
(* Private reflections.                                                    *)
(***************************************************************************)
\* The private notes of worker w, as parseNavigatorReview returns them.
Notes == [w \in AgentIds |-> trim(Txt(" note ") \o <<w>>)]

NotesOf(w) == Notes[w]

\* The texts of workers that a journal entry or a prompt quotes.
Quotes(content) ==
  {content[f] : f \in (DOMAIN content) \cap {"feedback", "reviewA", "reviewB"}}
  \cup (IF "driverReport" \in DOMAIN content
        THEN {content.driverReport[t] : t \in DOMAIN content.driverReport}
        ELSE {})

PrivateMemoryOf(w) ==
  {workers[w].messages[i].body :
     i \in {j \in 1..Len(workers[w].messages) :
              workers[w].messages[j].tag = "PRIVATE MEMORY"}}

\* The entries of sequence b beyond its prefix a.
Added(a, b) == (Len(a) + 1)..Len(b)

\* C14: the private reflection of a navigator review or of a final review
\* is appended to the conversation of the worker that wrote it and to
\* nothing else. A run starts with no private memory anywhere; the prompt
\* of an invocation in flight never quotes the notes of the other worker;
\* and every step only extends the journal, the conversations and the
\* round results, with no new journal entry that quotes the notes of a
\* worker, no new private memory in a conversation but its owner's notes
\* (or the parser's default text) under its owner's header, and no new
\* round result whose private reflection is not in the conversation of
\* its navigator.
C14_ReflectionsStayPrivate ==
  /\ \A w \in AgentIds : PrivateMemoryOf(w) = {}
  /\ sharedJournal = <<>> /\ rounds = <<>>
  /\ [](call # NoCall => NotesOf(otherAgent(call.actor)) \notin Quotes(call.prompt))
  /\ [][/\ IsPrefix(sharedJournal, sharedJournal')
        /\ \A i \in Added(sharedJournal, sharedJournal') :
             LET quoted == Quotes(sharedJournal'[i].content)
             IN  \A w \in AgentIds : NotesOf(w) \notin quoted
        /\ \A w \in AgentIds :
             LET messages == workers'[w].messages
             IN  /\ IsPrefix(workers[w].messages, messages)
                 /\ \A i \in Added(workers[w].messages, messages) :
                      messages[i].tag = "PRIVATE MEMORY" =>
                        /\ messages[i].body \in {NotesOf(w), NoPrivateReflection}
                        /\ messages[i].owner = w
        /\ IsPrefix(rounds, rounds')
        /\ \A i \in Added(rounds, rounds') :
             LET messages == workers'[rounds'[i].navigator].messages
             IN  \E j \in 1..Len(messages) :
                   /\ messages[j].tag = "PRIVATE MEMORY"
                   /\ messages[j].body = rounds'[i].navigatorReview.privateReflection
       ]_vars

\* C14 happens: in a paired run the navigator of round 1 wrote private notes
\* and public feedback, both final reviews wrote private notes, and A is
\* asked for the joint verdict with B's public feedback in its prompt; each
\* conversation holds its owner's notes.
C14_Witness ==
  /\ pc = "joint_synthesis"
  /\ rounds # <<>>
  /\ rounds[1].navigatorReview.hasFeedback
  /\ rounds[1].navigatorReview.privateReflection = NotesOf(rounds[1].navigator)
  /\ locals.reviewB.privateReflection = NotesOf("B")
  /\ call.prompt.reviewB = locals.reviewB.publicFeedback
  /\ \A w \in AgentIds : NotesOf(w) \in PrivateMemoryOf(w)


(***************************************************************************)
(* Roles and invocations.                                                  *)
(***************************************************************************)
InFlight == pc \in CallPcs

DriverPcs == {"driver_turn", "driver_decision", "driver_turn_solo", "driver_decision_solo"}

RoundPcs == DriverPcs \cup {"navigator_review", "navigator_review_solo"}

ReviewPcs == CallPcs \ RoundPcs

\* C15: while an invocation is in flight, the invoked worker holds the
\* coding tools only if it is the driver of the current round in its driver
\* turn or its driver decision, and then the other worker holds the
\* read-only tools; during planning and final review both workers hold the
\* read-only tools; and during every invocation of a round, the first one
\* included, the round's driver holds the coding tools and its navigator
\* the read-only tools.
C15_RolesDuringInvocations ==
  InFlight =>
    /\ workers[call.actor].tools = codingTools =>
         /\ pc \in DriverPcs
         /\ call.actor = driverId
         /\ workers[otherAgent(call.actor)].tools = readOnlyTools
    /\ pc \in ReviewPcs => \A w \in AgentIds : workers[w].tools = readOnlyTools
    /\ pc \in RoundPcs =>
         /\ workers[driverId].tools = codingTools
         /\ workers[otherAgent(driverId)].tools = readOnlyTools
         /\ call.actor = IF pc \in DriverPcs THEN driverId ELSE otherAgent(driverId)

\* C15 happens: A drove round 1 with the coding tools, the drivers were
\* swapped, and the driver turn of round 2 is in flight with B holding the
\* coding tools and A the read-only tools.
C15_Witness ==
  /\ pc = "driver_turn"
  /\ round = 2
  /\ rounds[1].driver = "A"
  /\ driverId = "B"
  /\ call.actor = "B"
  /\ workers["B"].tools = codingTools
  /\ workers["A"].tools = readOnlyTools


Prompting == {w \in AgentIds : workers[w].prompting}

PromptsStarted == Len(observer.prompts)

PromptsReturned == observer.events["prompt_end"]

\* C16: at most one invocation is in flight at any time.  In every state at
\* most one agent is prompting, and it is the worker of the invocation
\* run() awaits; the prompts started exceed the prompts returned by one
\* while an invocation is in flight and by none otherwise (a failed one
\* apart).  A step that starts an invocation is taken with none in flight
\* or is the step in which the one in flight returns, and so is a step
\* that appends to the shared journal.
C16_OneInvocationAtATime ==
  /\ [](/\ Cardinality(Prompting) <= 1
        /\ InFlight => Prompting = {call.actor} /\ PromptsStarted = PromptsReturned + 1
        /\ ~InFlight => Prompting = {}
        /\ (~InFlight /\ ~SomeInvocationFailed) => PromptsStarted = PromptsReturned)
  /\ [][(observer'.prompts # observer.prompts \/ sharedJournal' # sharedJournal) =>
          \/ ~InFlight
          \/ /\ observer'.events["prompt_end"] = PromptsReturned + 1
             /\ Len(observer'.prompts) <= PromptsStarted + 1]_vars

\* C16 happens: the navigator review of round 1 is in flight after three
\* planning invocations and the driver turn have returned; B alone is
\* prompting, and the journal ends with the driver's report.
C16_Witness ==
  /\ pc = "navigator_review"
  /\ PromptsStarted = 5
  /\ PromptsReturned = 4
  /\ Prompting = {otherAgent(driverId)}
  /\ sharedJournal[Len(sharedJournal)].stage = "driver_report"


(***************************************************************************)
(* Checkpoint interruptions.                                               *)
(***************************************************************************)
\* C17: a steering message is queued only for the driver of the current
\* round, and only in a step taken while that driver's own driver turn or
\* driver decision is in flight and stays in flight: every step that
\* changes the steering messages of a worker appends one message, naming
\* the other worker as the observer, to the worker that is the driver, is
\* invoked and is prompting.
C17_SteerOnlyTheDriver ==
  [][\A w \in AgentIds :
       workers'[w].steers # workers[w].steers =>
         /\ pc \in {"driver_turn", "driver_decision"}
         /\ pc' = pc
         /\ w = driverId
         /\ w = call.actor
         /\ workers[w].prompting /\ workers'[w].prompting
         /\ ~workers[otherAgent(w)].prompting
         /\ workers'[otherAgent(w)].steers = workers[otherAgent(w)].steers
         /\ \E phase \in {"driving", "feedback_resolution"} :
              workers'[w].steers =
                Append(workers[w].steers, [phase |-> phase, navigator |-> otherAgent(w)])]_vars

\* C17 happens: A was steered at a checkpoint of round 1, the drivers were
\* swapped, and B has been steered at a checkpoint of round 2 while its
\* driver turn is in flight.
C17_Witness ==
  /\ pc = "driver_turn"
  /\ round = 2
  /\ driverId = "B"
  /\ rounds[1].driver = "A"
  /\ Len(workers["A"].steers) = 1
  /\ Len(workers["B"].steers) = 1
  /\ workers["B"].steers[1].navigator = "A"


(***************************************************************************)
(* Driver decisions.                                                       *)
(***************************************************************************)
RoundsWithFeedback == {i \in 1..Len(rounds) : rounds[i].navigatorReview.hasFeedback}

DecisionPrompts ==
  Cardinality({i \in 1..Len(observer.prompts) :
                 observer.prompts[i].promptKind = "driver_decision"})

DecisionPcs == {"driver_decision", "driver_decision_solo"}

\* C18: in both execution modes, a RoundResult has a driver decision if and
\* only if its navigator review has feedback; the journal has one
\* driver_decision entry per round with feedback and no other; and a
\* driver-decision invocation was issued once for every round with
\* feedback and, beyond these, only for the round in progress, whose
\* review has feedback (it is in flight or it failed).
C18_DecisionIffFeedback ==
  LET withFeedback == Cardinality(RoundsWithFeedback)
      decisionPrompts == DecisionPrompts
  IN  /\ \A i \in 1..Len(rounds) :
           (rounds[i].driverDecision # NoDecision) <=> rounds[i].navigatorReview.hasFeedback
      /\ JournalCount("driver_decision") = withFeedback
      /\ decisionPrompts \in {withFeedback, withFeedback + 1}
      /\ decisionPrompts = withFeedback + 1 =>
           /\ pc \in DecisionPcs \/ SomeInvocationFailed
           /\ observer.prompts[Len(observer.prompts)].promptKind = "driver_decision"
           /\ locals.navigatorReview.hasFeedback
      /\ pc \in DecisionPcs => decisionPrompts = withFeedback + 1

\* C18 happens: a solo run has settled whose reviewer answered NONE. (no
\* feedback, once the full stop is dropped): its round has no driver
\* decision, no driver-decision invocation was issued and the journal has
\* no driver_decision entry.
C18_Witness ==
  /\ Settled
  /\ config.executionMode = "solo_driver_then_reviewer"
  /\ run.outcome = "resolved"
  /\ Len(rounds) = 1
  /\ rounds[1].navigatorReview.publicFeedback = Txt("NONE.")
  /\ ~rounds[1].navigatorReview.hasFeedback
  /\ rounds[1].driverDecision = NoDecision
  /\ DecisionPrompts = 0
  /\ JournalCount("driver_decision") = 0


(***************************************************************************)
(* solo_driver_then_reviewer.                                              *)
(***************************************************************************)
Solo == config.executionMode = "solo_driver_then_reviewer"

Completed == Settled /\ run.outcome = "resolved"

SoloPromptsWithoutDecision ==
  <<[actor |-> "A", promptKind |-> "plan_solo"],
    [actor |-> "A", promptKind |-> "driver_turn_solo"],
    [actor |-> "B", promptKind |-> "navigator_review_solo"]>>

SoloPromptsWithDecision ==
  Append(SoloPromptsWithoutDecision, [actor |-> "A", promptKind |-> "driver_decision"])

\* C19: a completed run of solo_driver_then_reviewer has exactly one
\* RoundResult, with driver A and navigator B, and swap count 0 (in the
\* summary and in the journal), whatever maxRounds, driverStartsAs, the turn
\* policy and the navigator's recommendation are.  Its invocations are the
\* plan of A, the driver turn of A, the review of B and, when the review
\* has feedback, the decision of A: planning issues one invocation, and no
\* final-review or joint-synthesis invocation is issued at any time.
C19_SoloShape ==
  Solo =>
    /\ Len(rounds) <= 1
    /\ swapCount = 0
    /\ JournalCount("driver_swap") = 0
    /\ \A i \in 1..Len(observer.prompts) :
         /\ observer.prompts[i].promptKind \notin
              {"plan_draft", "plan_feedback", "plan_revision", "final_review", "joint_synthesis"}
         /\ observer.prompts[i].promptKind = "plan_solo" <=> i = 1
    /\ IsPrefix(observer.prompts, SoloPromptsWithDecision)
    /\ Completed =>
         /\ Len(rounds) = 1
         /\ run.result.rounds = rounds
         /\ rounds[1].round = 1
         /\ rounds[1].driver = "A"
         /\ rounds[1].navigator = "B"
         /\ run.result.summary.swapCount = 0
         /\ run.result.summary.contributions["A"].roundsDriven = 1
         /\ run.result.summary.contributions["B"].roundsDriven = 0
         /\ observer.prompts = IF rounds[1].navigatorReview.hasFeedback
                               THEN SoloPromptsWithDecision
                               ELSE SoloPromptsWithoutDecision

\* C19 happens: a solo run configured with maxRounds = 2, driverStartsAs = B
\* and alternate_each_round, whose reviewer recommended a handoff, has
\* completed with one round driven by A and three invocations.
C19_Witness ==
  /\ Solo
  /\ Completed
  /\ config.maxRounds = 2
  /\ config.driverStartsAs = "B"
  /\ config.turnPolicy = AlternateEachRound
  /\ rounds[1].navigatorReview.driverRecommendation = "handoff"
  /\ rounds[1].driver = "A"
  /\ Len(observer.prompts) = 3
  /\ run.result.summary.swapCount = 0

SoloAccepted ==
  /\ rounds[1].driverDecision # NoDecision
  /\ rounds[1].driverDecision.decision = "accept"

VerdictEntries == SelectSeq(sharedJournal, LAMBDA e : e.stage = "joint_verdict")

\* C20: in solo_driver_then_reviewer the synthesized verdict is APPROVED if
\* and only if the reviewer had no feedback or the driver's decision was
\* accept, and NEEDS_MORE_WORK otherwise; next steps is NONE when approved
\* and the reviewer's public feedback otherwise; the verdict is the one
\* broadcast, by the system, as the joint_verdict entry of the journal.
C20_SoloVerdict ==
  (Solo /\ run.finalReview # None) =>
    /\ Len(rounds) = 1
    /\ run.finalReview.jointVerdict \in {"APPROVED", "NEEDS_MORE_WORK"}
    /\ run.finalReview.jointVerdict = "APPROVED" <=>
         (~rounds[1].navigatorReview.hasFeedback \/ SoloAccepted)
    /\ run.finalReview.nextSteps =
         IF run.finalReview.jointVerdict = "APPROVED" THEN Txt("NONE")
         ELSE rounds[1].navigatorReview.publicFeedback
    /\ run.finalReview.reviewB = rounds[1].navigatorReview
    /\ VerdictEntries =
         <<Entry("joint_verdict", "system", [verdict |-> run.finalReview.jointVerdict])>>

\* C20 happens: the reviewer had feedback, the driver answered Accept, and
\* the run completed with the verdict APPROVED and next steps NONE.
C20_Witness ==
  /\ Solo
  /\ Completed
  /\ rounds[1].navigatorReview.hasFeedback
  /\ rounds[1].driverDecision.raw.decision = Txt("Accept")
  /\ run.result.finalReview.jointVerdict = "APPROVED"
  /\ run.result.finalReview.nextSteps = Txt("NONE")

(***************************************************************************)
(* Replay.                                                                 *)
(***************************************************************************)
\* Step A has one outcome: when the step taken is a step of A, no step of A
\* from the same state leads anywhere else.
OnlyOneOutcome(A) == A => \A next \in {vars'} : ~ENABLED (A /\ vars' # next)

Summarised == pc = "summarised"

ShareOf(a) == run.summary.contributions[a].roughCodeSharePercent

BytesOf(a) == contributions[a].estimatedWrittenBytes

DrivenOf(a) == contributions[a].roundsDriven

TotalBytes == BytesOf("A") + BytesOf("B")

TotalDriven == DrivenOf("A") + DrivenOf("B")

\* C22: when the total of estimated bytes is positive, the two shares of
\* the summary, each rounded to one decimal, add up to 100 within 0.1.
C22_SharesAddUp ==
  Summarised /\ TotalBytes > 0 =>
    /\ ShareOf("A") + ShareOf("B") >= 1000 - 1
    /\ ShareOf("A") + ShareOf("B") <= 1000 + 1

\* C22 happens: A wrote 1 byte of 16, both shares are ties (6.25 and
\* 93.75) that round up, and the sum is 100.1.
C22_Witness ==
  /\ Summarised
  /\ BytesOf("A") = 1 /\ BytesOf("B") = 15
  /\ ShareOf("A") = 63 /\ ShareOf("B") = 938

\* share, in tenths of a percent, is num / den * 100 rounded to one
\* decimal: the nearest tenth, the upper one at a tie.
IsRoundedShare(share, num, den) ==
  /\ 2 * den * share > 2 * 1000 * num - den
  /\ 2 * den * share <= 2 * 1000 * num + den

\* C23: the share of each agent is ownBytes / totalBytes * 100 rounded to
\* one decimal when bytes were estimated, whatever the rounds driven;
\* otherwise ownRoundsDriven / totalRoundsDriven * 100 rounded to one
\* decimal when a round was driven; and 0 for both agents when both totals
\* are zero.  The summary reports the total of bytes and leaves the other
\* figures of the contributions as they were.
C23_ShareByBytesThenRounds ==
  Summarised =>
    /\ run.summary.totalEstimatedWrittenBytes = TotalBytes
    /\ \A a \in AgentIds :
         /\ TotalBytes > 0 => IsRoundedShare(ShareOf(a), BytesOf(a), TotalBytes)
         /\ TotalBytes = 0 /\ TotalDriven > 0 =>
              IsRoundedShare(ShareOf(a), DrivenOf(a), TotalDriven)
         /\ TotalBytes = 0 /\ TotalDriven = 0 => ShareOf(a) = 0
         /\ run.summary.contributions[a] =
              [contributions[a] EXCEPT !.roughCodeSharePercent = ShareOf(a)]

\* C23 happens: A wrote all the bytes of a run in which both agents drove
\* one round, and the shares are 100 and 0, not 50 and 50.
C23_Witness ==
  /\ Summarised
  /\ BytesOf("A") = 3 /\ BytesOf("B") = 0
  /\ DrivenOf("A") = 1 /\ DrivenOf("B") = 1
  /\ ShareOf("A") = 1000 /\ ShareOf("B") = 0


(***************************************************************************)
(* parseNavigatorReview on spelled-out responses.                          *)
(***************************************************************************)
NavigatorReviewParsed == pc = "navigator_review_parsed"

\* The text has a pair of public_feedback tags, the opening one first.
HasTagPair(text, tag) ==
  \E i, j \in 1..Len(text) :
    i < j /\ text[i] = "<" \o tag \o ">" /\ text[j] = "</" \o tag \o ">"

\* NONE in any case and then nothing but full stops and exclamation marks.
IsNoneToken(field) ==
  /\ Len(field) >= 4
  /\ field[1] \in {"n", "N"} /\ field[2] \in {"o", "O"}
  /\ field[3] \in {"n", "N"} /\ field[4] \in {"e", "E"}
  /\ \A i \in 5..Len(field) : field[i] \in {".", "!"}

\* C24: parseNavigatorReview gives a review for every text; the review's
\* public feedback is the literal NONE when the text has no public_feedback
\* tag, and hasFeedback is false exactly when the public feedback, case and
\* closing full stops and exclamation marks aside, is NONE.
C24_NoFeedbackIffNone ==
  NavigatorReviewParsed =>
    LET review == locals.navigatorReview
    IN /\ review.hasFeedback \in BOOLEAN
       /\ review.driverRecommendation \in {"handoff", "continue"}
       /\ ~HasTagPair(review.raw.text, "public_feedback")
            => review.publicFeedback = <<"N", "O", "N", "E">>
       /\ ~review.hasFeedback <=> IsNoneToken(review.publicFeedback)

C24_Witness ==
  /\ NavigatorReviewParsed
  /\ locals.navigatorReview.raw.text =
       <<"<public_feedback>", " ", "N", "o", "n", "e", ".", "</public_feedback>">>
  /\ locals.navigatorReview.publicFeedback = <<"N", "o", "n", "e", ".">>
  /\ ~locals.navigatorReview.hasFeedback


(***************************************************************************)
(* parseDriverDecision on spelled-out responses.                           *)
(***************************************************************************)
DriverDecisionParsed == pc = "driver_decision_parsed"

SameLetter(c, letter) == c = letter \/ c = UpperOf[letter]

\* The content is the token in any case with nothing but blanks around it.
IsToken(content, token) ==
  \E k \in 0..Len(content) :
    /\ k + Len(token) <= Len(content)
    /\ \A i \in 1..Len(content) :
         IF i \in (k + 1)..(k + Len(token))
         THEN SameLetter(content[i], token[i - k])
         ELSE content[i] = " "

IsDecisionTag(c) == c \in {"<decision>", "<DECISION>"}

\* The content of the first decision tag of the text is the token.
FirstDecisionIs(text, token) ==
  \E i, j \in 1..Len(text) :
    /\ i < j
    /\ IsDecisionTag(text[i])
    /\ \A h \in 1..(i - 1) : ~IsDecisionTag(text[h])
    /\ text[j] = "</decision>"
    /\ \A h \in (i + 1)..(j - 1) : text[h] # "</decision>"
    /\ IsToken(SubSeq(text, i + 1, j - 1), token)

\* C25: parseDriverDecision gives accept, partial or reject for every text;
\* accept or reject exactly when the content of the first decision tag,
\* blanks and case aside, is that token, and partial for every other text;
\* without a justification tag the justification is the trimmed text.
C25_DecisionDefaultsToPartial ==
  DriverDecisionParsed =>
    LET driverDecision == locals.driverDecision
        text == driverDecision.raw.text
    IN /\ driverDecision.decision \in {"accept", "partial", "reject"}
       /\ driverDecision.decision = "accept" <=> FirstDecisionIs(text, Txt("accept"))
       /\ driverDecision.decision = "reject" <=> FirstDecisionIs(text, Txt("reject"))
       /\ ~HasTagPair(text, "justification") => driverDecision.justification = trim(text)

C25_Witness ==
  /\ DriverDecisionParsed
  /\ locals.driverDecision.raw.text =
       <<" ", "<decision>", "A", "c", "c", "e", "p", "t", "r", "e", "j", "e", "c", "t",
         "</decision>">>
  /\ locals.driverDecision.decision = "partial"
  /\ locals.driverDecision.justification =
       <<"<decision>", "A", "c", "c", "e", "p", "t", "r", "e", "j", "e", "c", "t",
         "</decision>">>


(***************************************************************************)
(* The observer after its first completed flush.                           *)
(***************************************************************************)
Sealed == observer.flushedSummary # None

Started == pc # "ready"

Invocations == Len(observer.prompts)

\* C27: when every invocation returns or fails, a run that has started
\* settles; until then it is suspended at an invocation in flight or at
\* the flush of the observer; a paired run has at most maxRounds rounds and
\* at most 3 + 3 * maxRounds + 3 invocations.
C27_RunSettles ==
  /\ Started ~> Settled
  /\ [](Started /\ ~Settled /\ pc # "flushing" =>
          /\ pc \in CallPcs
          /\ call # NoCall
          /\ workers[call.actor].prompting)
  /\ [](config.executionMode = "paired_turns" /\ Started =>
          /\ Len(rounds) <= config.maxRounds
          /\ Invocations <= 3 + 3 * config.maxRounds + 3)

C27_Witness ==
  /\ Settled
  /\ run.outcome = "resolved"
  /\ config.executionMode = "paired_turns"
  /\ config.maxRounds = 2
  /\ Len(rounds) = 2
  /\ Invocations = 12


(***************************************************************************)
(* The order of the shared journal.                                        *)
(***************************************************************************)
Paired == config.executionMode = "paired_turns"

StageAt(i) == sharedJournal[i].stage

\* The stages that may follow a stage between plan_agreed and loop_stop.
RoundSuccessors(stage) ==
  CASE stage = "plan_agreed" -> {"driver_report"}
    [] stage = "driver_report" -> {"navigator_feedback"}
    [] stage = "navigator_feedback" -> {"navigator_handoff_signal"}
    [] stage = "navigator_handoff_signal" ->
         {"driver_decision", "driver_swap", "driver_report", "loop_stop"}
    [] stage = "driver_decision" -> {"driver_swap", "driver_report", "loop_stop"}
    [] stage = "driver_swap" -> {"driver_report"}
    [] OTHER -> {}

JournalInOrder ==
  LET n == Len(sharedJournal)
  IN /\ n >= 11
     /\ StageAt(1) = "task" /\ sharedJournal[1].actor = "system"
     /\ StageAt(2) = "plan_draft" /\ StageAt(3) = "plan_feedback"
     /\ StageAt(4) = "plan_agreed"
     /\ \A i \in 4..(n - 4) : StageAt(i + 1) \in RoundSuccessors(StageAt(i))
     /\ StageAt(n - 3) = "loop_stop"
     /\ StageAt(n - 2) = "final_review_A" /\ StageAt(n - 1) = "final_review_B"
     /\ StageAt(n) = "joint_verdict"
     /\ JournalCount("driver_report") = Len(rounds)
     /\ JournalCount("loop_stop") = 1

\* The await at which the invocation that produced the content of an entry
\* returns; the entries of the system after a round are made from the
\* round's last answer.
ProducedAt(stage) ==
  CASE stage = "task" -> {"ready"}
    [] stage = "plan_draft" -> {"plan_draft"}
    [] stage = "plan_feedback" -> {"plan_feedback"}
    [] stage = "plan_agreed" -> {"plan_revision"}
    [] stage = "driver_report" -> {"driver_turn"}
    [] stage \in {"navigator_feedback", "navigator_handoff_signal"} -> {"navigator_review"}
    [] stage = "driver_decision" -> {"driver_decision"}
    [] stage \in {"driver_swap", "loop_stop"} -> {"navigator_review", "driver_decision"}
    [] stage = "final_review_A" -> {"final_review_A"}
    [] stage = "final_review_B" -> {"final_review_B"}
    [] stage = "joint_verdict" -> {"joint_synthesis"}
    [] OTHER -> {}

\* The step is the return of an invocation, or the start of run().
ReturnStep ==
  \/ pc = "ready"
  \/ pc \in CallPcs /\ observer'.events["prompt_end"] = observer.events["prompt_end"] + 1

\* C28 as stated: the journal of a completed paired run is in order, and
\* every entry is appended in the step in which the invocation that
\* produced its content returns, before the next invocation starts.
C28_AppendedBeforeNextInvocation ==
  /\ [](Completed /\ Paired => JournalInOrder)
  /\ [][Paired =>
          \A i \in Added(sharedJournal, sharedJournal') :
             ReturnStep /\ pc \in ProducedAt(sharedJournal'[i].stage)]_vars

\* C28: the journal of a completed paired run is in order; every entry is
\* appended in a step in which an invocation returns (the task when run()
\* starts), before the next invocation starts: in the step in which the
\* invocation that produced its content returns, except final_review_A,
\* which is appended with final_review_B when B's final review returns.
C28_JournalInOrder ==
  /\ [](Completed /\ Paired => JournalInOrder)
  /\ [][Paired =>
          \A i \in Added(sharedJournal, sharedJournal') :
             /\ ReturnStep
             /\ IF sharedJournal'[i].stage = "final_review_A"
                THEN pc = "final_review_B" /\ sharedJournal'[i + 1].stage = "final_review_B"
                ELSE pc \in ProducedAt(sharedJournal'[i].stage)]_vars
  /\ [][pc = "final_review_A" => sharedJournal' = sharedJournal]_vars

C28_Witness ==
  /\ Completed /\ Paired
  /\ [i \in 1..Len(sharedJournal) |-> StageAt(i)] =
       <<"task", "plan_draft", "plan_feedback", "plan_agreed",
         "driver_report", "navigator_feedback", "navigator_handoff_signal", "driver_decision",
         "driver_swap",
         "driver_report", "navigator_feedback", "navigator_handoff_signal",
         "loop_stop", "final_review_A", "final_review_B", "joint_verdict">>


(***************************************************************************)
(* The phase of a checkpoint.                                              *)
(***************************************************************************)
HasTracker == "currentPhase" \in DOMAIN executionTracker

LastSteer(w) == workers[w].steers[Len(workers[w].steers)]

\* C29: the interruption a checkpoint sends carries the phase in which it
\* fired, driving during the driver turn and feedback_resolution during
\* the driver decision; the tracker of a round is in the phase driving up
\* to the navigator's review and in feedback_resolution from the driver
\* decision on, and only the tracker of a new round is in driving again.
C29_PhaseOfCheckpoint ==
  /\ [][\A w \in AgentIds :
          workers'[w].steers # workers[w].steers =>
            /\ Len(workers'[w].steers) = Len(workers[w].steers) + 1
            /\ pc \in {"driver_turn", "driver_decision"}
            /\ pc = "driver_turn" => LastSteer(w)'.phase = "driving"
            /\ pc = "driver_decision" => LastSteer(w)'.phase = "feedback_resolution"]_vars
  /\ [](pc \in {"driver_turn", "navigator_review"} =>
          executionTracker.currentPhase = "driving")
  /\ [](pc = "driver_decision" => executionTracker.currentPhase = "feedback_resolution")
  /\ [][(HasTracker /\ executionTracker.currentPhase = "feedback_resolution"
                    /\ executionTracker'.currentPhase = "driving") =>
          /\ round' = round + 1
          /\ executionTracker' = createDriverExecutionTracker(config.pauseStrategy)]_vars

C29_Witness ==
  /\ pc = "driver_decision"
  /\ round = 1
  /\ workers[driverId].steers =
       <<[phase |-> "driving", navigator |-> otherAgent(driverId)],
         [phase |-> "feedback_resolution", navigator |-> otherAgent(driverId)]>>


(***************************************************************************)
(* The checkpoint counter of a round.                                      *)
(***************************************************************************)
EditsPerPause == config.pauseStrategy.editsPerPause

\* The successful counted calls delivered so far in the round under way.
CountedInRound == delivered.successCounted

RECURSIVE CountedInRounds(_)
CountedInRounds(n) ==
  IF n = 0 THEN 0 ELSE CountedInRounds(n - 1) + rounds[n].editWriteCallCount

\* C30: the result of a round has floor(K / N) checkpoints, K being the
\* successful counted calls of the round's driver turn and driver decision
\* together, and pauseTriggered when that is 1 or more; the counted calls
\* of the rounds add up to the successful calls of the run, so none is
\* counted in two rounds; the tracker of a new round starts at zero; the
\* navigator's prompt is told of a pause when the calls of the driver turn
\* alone reached N.
C30_CounterSpansOneRound ==
  /\ [][Len(rounds') = Len(rounds) + 1 =>
          LET result == rounds'[Len(rounds')]
          IN /\ result.checkpointCount = CountedInRound \div EditsPerPause
             /\ result.editWriteCallCount = CountedInRound
             /\ result.pauseTriggered <=> CountedInRound >= EditsPerPause]_vars
  /\ [](pc \in LoopPcs =>
          CountedInRounds(Len(rounds)) + CountedInRound = observer.events["tool_execution_end"])
  /\ [][round' = round + 1 =>
          /\ executionTracker'.countedEdits = 0
          /\ executionTracker'.checkpointCount = 0
          /\ executionTracker'.nextCheckpointAt = EditsPerPause
          /\ ~executionTracker'.pauseTriggered]_vars
  /\ [][pc = "driver_turn" /\ pc' = "navigator_review" =>
          call'.prompt.pauseTriggered <=> CountedInRound >= EditsPerPause]_vars

C30_Witness ==
  /\ Len(rounds) = 2
  /\ EditsPerPause = 2
  /\ rounds[1].editWriteCallCount = 2 /\ rounds[1].checkpointCount = 1
  /\ rounds[1].pauseTriggered
  /\ workers[rounds[1].driver].steers =
       <<[phase |-> "feedback_resolution", navigator |-> rounds[1].navigator]>>
  /\ rounds[2].editWriteCallCount = 1 /\ rounds[2].checkpointCount = 0
  /\ ~rounds[2].pauseTriggered


(***************************************************************************)
(* The pending estimates of the tracker.                                   *)
(***************************************************************************)
PendingIds == DOMAIN executionTracker.pendingWriteEstimates

OpenIds == {c.id : c \in openToolCalls}

\* C31 as stated: once the tracker has handled the end event of a call, the
\* pending estimates hold no entry for the call, so every entry belongs to
\* a call that has started and not ended, under either pause strategy.
C31_PendingEntryCleared == Tracking => PendingIds \subseteq OpenIds

\* The part of C31 that holds: a tracker that counts edits clears the entry
\* of every call that ends, and a tracker with strategy none that of every
\* call that ends without an error.
C31_ClearedWhenCountingOrSuccessful ==
  [][(Tracking /\ Tracking') =>
       \A c \in openToolCalls \ openToolCalls' :
          \/ c.id \notin DOMAIN executionTracker'.pendingWriteEstimates
          \/ /\ config.pauseStrategy.mode = "none"
             /\ executionTracker'.editWriteCallCount = executionTracker.editWriteCallCount
             /\ IsEditOrWrite(c.toolName)]_vars

\* C31 fails: a tracker with strategy none has seen an edit start and end
\* with an error, and still holds the estimate of the call.
C31_Witness ==
  /\ Tracking
  /\ config.pauseStrategy.mode = "none"
  /\ toolCallsMade = 1
  /\ openToolCalls = {}
  /\ executionTracker.pendingWriteEstimates = MapSet(EmptyMap, 1, 3)
  /\ executionTracker.editWriteCallCount = 0
  /\ executionTracker.estimatedWrittenBytes = 0


(***************************************************************************)
(* The contribution counters of the tracker.                               *)
(***************************************************************************)
Estimating == pc = "estimating"

RECURSIVE SumOver(_, _)
SumOver(ids, f) ==
  IF ids = {} THEN 0
  ELSE LET id == CHOOSE x \in ids : TRUE
       IN f[id] + SumOver(ids \ {id}, f)

CountsSucceeded(t) ==
  /\ t.editWriteCallCount = Cardinality(locals.succeeded)
  /\ t.estimatedWrittenBytes = SumOver(locals.succeeded, locals.estimates)

\* C32: after every event, under either strategy, editWriteCallCount is the
\* number of edit and write calls that have ended without an error and
\* estimatedWrittenBytes the sum of the UTF-8 sizes of the texts they were
\* started with; no step lowers a counter.
C32_CountersOfSuccessfulCalls ==
  /\ [](Estimating => CountsSucceeded(executionTracker) /\ CountsSucceeded(locals.strategyNone))
  /\ [][(Estimating /\ Estimating') =>
          /\ executionTracker'.editWriteCallCount >= executionTracker.editWriteCallCount
          /\ executionTracker'.estimatedWrittenBytes >= executionTracker.estimatedWrittenBytes
          /\ locals'.strategyNone.editWriteCallCount >= locals.strategyNone.editWriteCallCount
          /\ locals'.strategyNone.estimatedWrittenBytes
               >= locals.strategyNone.estimatedWrittenBytes]_vars

\* C32 happens: an edit of 3 bytes and a write of 4 bytes have succeeded
\* and an edit of 3 bytes has failed.
C32_Witness ==
  /\ Estimating
  /\ openToolCalls = {}
  /\ toolCallsMade = 3
  /\ locals.estimates = MapSet(MapSet(MapSet(EmptyMap, 1, 3), 2, 4), 3, 3)
  /\ locals.succeeded = {1, 2}
  /\ executionTracker.editWriteCallCount = 2
  /\ executionTracker.estimatedWrittenBytes = 7


(***************************************************************************)
(* The subscription of the tracker to a worker's events.                   *)
(***************************************************************************)
Subscribed == call # NoCall /\ call.tracked

ToolEventsSeen ==
  observer.events["tool_execution_start"] + observer.events["tool_execution_end"]

\* C33: the tracker is subscribed only during the driver turn and the driver
\* decision of the round in progress, whose actor is the driver; between
\* invocations and after a failed one nobody is subscribed; a tool event
\* outside these two invocations leaves the tracker and the steering
\* queues as they are, so the navigator's calls of a counted tool are not
\* counted.
C33_TrackerHearsOnlyTheDriver ==
  /\ [](Subscribed => /\ pc \in {"driver_turn", "driver_decision"}
                      /\ call.actor = driverId
                      /\ workers[call.actor].tools = codingTools)
  /\ [](pc \notin CallPcs => call = NoCall)
  /\ [][(ToolEventsSeen' # ToolEventsSeen /\ pc \notin {"driver_turn", "driver_decision"}) =>
          /\ executionTracker' = executionTracker
          /\ delivered' = delivered
          /\ \A w \in AgentIds : workers'[w].steers = workers[w].steers]_vars

\* C33 happens: the navigator of round 1 has read two files, read being a
\* counted tool with a checkpoint at every call, and nothing was counted.
C33_Witness ==
  /\ pc = "navigator_review"
  /\ round = 1
  /\ call.actor = otherAgent(driverId)
  /\ toolCallsMade = 2
  /\ openToolCalls = {}
  /\ observer.events["tool_execution_end"] = 2
  /\ executionTracker.countedEdits = 0
  /\ executionTracker.checkpointCount = 0
  /\ delivered = NoDelivered
  /\ \A w \in AgentIds : workers[w].steers = <<>>


(***************************************************************************)
(* Checkpoints of a solo run.                                              *)
(***************************************************************************)
SoloPcs == {"driver_turn_solo", "navigator_review_solo", "driver_decision_solo"}

\* C34: in a solo run the tracker counts as in a paired run: its
\* checkpointCount is floor(K / N) for the K successful edits it has been
\* given in the driver turn and the driver decision, pauseTriggered says
\* whether that is 1 or more, and the result of the round carries both;
\* yet no worker is ever sent an interruption, in the driver turn or in
\* the driver decision.
C34_SoloCountsWithoutInterrupting ==
  /\ [](\A w \in AgentIds : workers[w].steers = <<>>)
  /\ [](pc \in SoloPcs =>
          /\ executionTracker.countedEdits = delivered.successCounted
          /\ executionTracker.checkpointCount = delivered.successCounted \div EditsPerPause
          /\ executionTracker.pauseTriggered <=> delivered.successCounted >= EditsPerPause
          /\ delivered.fired = executionTracker.checkpointCount
          /\ delivered.callbacks = <<>>)
  /\ [][Len(rounds') = Len(rounds) + 1 =>
          LET result == rounds'[Len(rounds')]
          IN /\ result.checkpointCount = delivered.successCounted \div EditsPerPause
             /\ result.pauseTriggered <=> delivered.successCounted >= EditsPerPause]_vars

\* C34 happens: with N = 2 the solo driver made two successful edits in
\* its turn and a third while resolving feedback, the run has completed
\* with one checkpoint in its round, and nobody was interrupted.
C34_Witness ==
  /\ Solo
  /\ Completed
  /\ EditsPerPause = 2
  /\ delivered.successCounted = 3
  /\ executionTracker.currentPhase = "feedback_resolution"
  /\ Len(rounds) = 1
  /\ rounds[1].checkpointCount = 1
  /\ rounds[1].pauseTriggered
  /\ \A w \in AgentIds : workers[w].steers = <<>>


(***************************************************************************)
(* The running totals of a paired run against its RoundResults.            *)
(***************************************************************************)
RoundsDrivenBy(a) == {i \in 1..Len(rounds) : rounds[i].driver = a}

RECURSIVE SumOfRounds(_, _)
SumOfRounds(is, field) ==
  IF is = {} THEN 0
  ELSE LET i == CHOOSE x \in is : TRUE
       IN rounds[i][field] + SumOfRounds(is \ {i}, field)

TotalsOf(a) ==
  <<contributions[a].roundsDriven, contributions[a].checkpointsWhileDriving,
    contributions[a].editWriteCallCount, contributions[a].estimatedWrittenBytes>>

\* C35: in every state of a paired run, the rounds driven by A and by B add
\* up to the number of RoundResults, the checkpoint total of the run is the
\* sum of the checkpointCount of the RoundResults and the sum of the two
\* workers' checkpointsWhileDriving, each worker's four totals are the
\* sums over the rounds it drove, and no step lowers a total while the run
\* lasts.
C35_TotalsAreSumsOverRounds ==
  /\ [](/\ contributions["A"].roundsDriven + contributions["B"].roundsDriven = Len(rounds)
        /\ checkpointCount = SumOfRounds(1..Len(rounds), "checkpointCount")
        /\ checkpointCount = contributions["A"].checkpointsWhileDriving
                               + contributions["B"].checkpointsWhileDriving
        /\ \A a \in AgentIds :
             /\ contributions[a].roundsDriven = Cardinality(RoundsDrivenBy(a))
             /\ contributions[a].checkpointsWhileDriving
                  = SumOfRounds(RoundsDrivenBy(a), "checkpointCount")
             /\ contributions[a].editWriteCallCount
                  = SumOfRounds(RoundsDrivenBy(a), "editWriteCallCount")
             /\ contributions[a].estimatedWrittenBytes
                  = SumOfRounds(RoundsDrivenBy(a), "estimatedWrittenBytes"))
  /\ [][pc # "ready" =>
          /\ checkpointCount' >= checkpointCount
          /\ \A a \in AgentIds, k \in 1..4 : TotalsOf(a)'[k] >= TotalsOf(a)[k]]_vars

\* C35 happens: A drove rounds 1 and 2 with an edit of 3 bytes in the first,
\* B drove round 3 with a write of 4 bytes.
C35_Witness ==
  /\ Len(rounds) = 3
  /\ RoundsDrivenBy("A") = {1, 2}
  /\ rounds[1].estimatedWrittenBytes = 3 /\ rounds[1].checkpointCount = 1
  /\ rounds[2].estimatedWrittenBytes = 0
  /\ rounds[3].estimatedWrittenBytes = 4 /\ rounds[3].checkpointCount = 1
  /\ TotalsOf("A") = <<2, 1, 1, 3>>
  /\ TotalsOf("B") = <<1, 1, 1, 4>>
  /\ checkpointCount = 2


(***************************************************************************)
(* The swap count of a completed run.                                      *)
(***************************************************************************)
ReturnedRounds == run.result.rounds

\* the rounds of the result after which the next round has another driver
ReturnedChanges ==
  SelectSeq([i \in 1..Len(ReturnedRounds) |-> i],
            LAMBDA i : i < Len(ReturnedRounds)
                       /\ ReturnedRounds[i + 1].driver # ReturnedRounds[i].driver)

ReturnedSwaps == SelectSeq(run.result.sharedJournal, LAMBDA e : e.stage = "driver_swap")

\* C36: in a completed run the swapCount of the summary is the number of
\* adjacent rounds of the result whose drivers differ, the number of
\* driver_swap entries of the returned journal and the number of
\* driver_swap events the observer recorded and wrote to its log; the k-th swap entry names the
\* drivers of the two rounds around the k-th change, so the round after a
\* swap is driven by the new driver; and swapCount is at most rounds - 1.
C36_SwapCountMatchesHistory ==
  Completed =>
    /\ run.result.summary.swapCount = Len(ReturnedChanges)
    /\ Len(ReturnedSwaps) = Len(ReturnedChanges)
    /\ observer.events["driver_swap"] = Len(ReturnedChanges)
    /\ observer.finalLog.events["driver_swap"] = Len(ReturnedChanges)
    /\ \A k \in 1..Len(ReturnedChanges) :
         /\ ReturnedSwaps[k].content.from = ReturnedRounds[ReturnedChanges[k]].driver
         /\ ReturnedSwaps[k].content.to = ReturnedRounds[ReturnedChanges[k] + 1].driver
    /\ run.result.summary.swapCount <= Len(ReturnedRounds) - 1

\* C36 happens: a completed run of three rounds under the sticky policy in
\* which A drove two rounds and B the third, with one swap.
C36_Witness ==
  /\ Completed
  /\ Len(ReturnedRounds) = 3
  /\ ReturnedChanges = <<2>>
  /\ run.result.summary.swapCount = 1
  /\ Len(ReturnedSwaps) = 1
  /\ ReturnedSwaps[1].content.from = "A" /\ ReturnedSwaps[1].content.to = "B"


(***************************************************************************)
(* The contribution counters under the two pause strategies.               *)
(***************************************************************************)
\* C37: a tracker with the strategy none and a tracker with a strategy
\* every_n_file_edits that are given the same events, every end after its
\* start, report the same editWriteCallCount and estimatedWrittenBytes
\* after every event.
C37_CountersIgnoreTheStrategy ==
  Estimating =>
    /\ snapshot(executionTracker).editWriteCallCount
         = snapshot(locals.strategyNone).editWriteCallCount
    /\ snapshot(executionTracker).estimatedWrittenBytes
         = snapshot(locals.strategyNone).estimatedWrittenBytes

\* C37 happens: an edit has failed and a write of 4 bytes has succeeded;
\* the tracker that counts edits has fired a checkpoint, the other has
\* not, and the one with the strategy none still holds the estimate of
\* the failed edit.
C37_Witness ==
  /\ Estimating
  /\ openToolCalls = {}
  /\ toolCallsMade = 2
  /\ executionTracker.checkpointCount = 1
  /\ locals.strategyNone.checkpointCount = 0
  /\ executionTracker.pendingWriteEstimates = EmptyMap
  /\ locals.strategyNone.pendingWriteEstimates = MapSet(EmptyMap, 1, 3)
  /\ executionTracker.editWriteCallCount = 1
  /\ executionTracker.estimatedWrittenBytes = 4


(***************************************************************************)
(* The journal a call of run() returns.                                    *)
(***************************************************************************)
ReturnedJournal == run.result.sharedJournal

\* C38 as stated: the journal a call returns starts with the task entry of
\* that call and holds the entries of that call only, so exactly one task
\* entry, also when the call is the second on the orchestrator.
C38_JournalOfThisCallOnly ==
  Completed =>
    /\ ReturnedJournal[1].stage = "task"
    /\ ReturnedJournal[1].actor = "system"
    /\ Len(TaskEntries(ReturnedJournal)) = 1

\* C38, amended: the journal belongs to the orchestrator, no step removes
\* or changes an entry of it, a call of run() appends its task entry to
\* what the calls before have left, and a call returns the whole journal.
\* The first call on an orchestrator returns its own entries, its task
\* entry first.
C38_JournalOfTheOrchestrator ==
  /\ [][IsPrefix(sharedJournal, sharedJournal')]_vars
  /\ [][(pc \in {"ready", "settled"} /\ pc' = "plan_draft") =>
          sharedJournal' = Append(sharedJournal, Entry("task", "system", [text |-> "task"]))]_vars
  /\ [](Completed =>
          /\ ReturnedJournal = sharedJournal
          /\ ReturnedJournal[1].stage = "task" /\ ReturnedJournal[1].actor = "system")
  /\ []((pc # "ready" /\ Len(TaskEntries(sharedJournal)) = 1) =>
          \A i \in 2..Len(sharedJournal) : sharedJournal[i].stage # "task")

\* C38 happens: the second call on an orchestrator has completed, and the
\* journal it returns holds the entries of the first call, then its own
\* task entry, then its other entries.
C38_Witness ==
  /\ Completed
  /\ Len(TaskEntries(ReturnedJournal)) = 2
  /\ ReturnedJournal[1].stage = "task"
  /\ \E i \in 3..Len(ReturnedJournal) :
       /\ ReturnedJournal[i].stage = "task"
       /\ ReturnedJournal[i - 1].stage \in {"final_verdict", "joint_verdict", "final_review"}
       /\ i < Len(ReturnedJournal)


(***************************************************************************)
(* The order of the lines of the event-stream file.                        *)
(***************************************************************************)
IsEventLine(line) == line.type = "event"

EventLines(lines) == SelectSeq(lines, IsEventLine)

EndsBefore(lines, i) == Len(SelectSeq(SubSeq(lines, 1, i), LAMBDA l : l = EndLine))

RECURSIVE IsSubsequence(_, _)
IsSubsequence(a, b) ==
  IF a = <<>> THEN TRUE
  ELSE IF b = <<>> THEN FALSE
  ELSE IF Head(a) = Head(b) THEN IsSubsequence(Tail(a), Tail(b))
  ELSE IsSubsequence(a, Tail(b))

ResolutionsOf(reference, stages) ==
  {r \in DOMAIN locals.resolutions :
     /\ locals.resolutions[r].reference = reference
     /\ locals.resolutions[r].stage \in stages}

Rejected(r) == locals.resolutions[r].stage = "rejected"

\* C40 as stated: of one reference at most one op read is in flight, none
\* is in flight or started once a value is cached, and a resolution that
\* has failed is not the pending entry of its reference and has cached
\* nothing.
C40_FailedResolutionLeavesNothing ==
  \A reference \in OpReferences :
    /\ Cardinality(ResolutionsOf(reference, InFlightStages)) <= 1
    /\ locals.opRefValueCache[reference] => ResolutionsOf(reference, InFlightStages) = {}
    /\ \A r \in ResolutionsOf(reference, {"rejected"}) :
         locals.opRefPendingCache[reference] # r

\* The part of C40 that holds: of one reference at most one resolution is
\* in flight, it is the pending entry, and none is in flight or started
\* once a value is cached; a value is cached only by a resolution that is
\* fulfilled; a resolution whose op read has failed or returned nothing
\* leaves no pending entry and caches nothing, and the next call starts a
\* new resolution.
C40_OneReadAndRetryAfterFailedRead ==
  /\ [](\A reference \in OpReferences :
          /\ Cardinality(ResolutionsOf(reference, InFlightStages)) <= 1
          /\ \A r \in ResolutionsOf(reference, InFlightStages) :
               locals.opRefPendingCache[reference] = r
          /\ locals.opRefValueCache[reference] =>
               /\ ResolutionsOf(reference, InFlightStages) = {}
               /\ ResolutionsOf(reference, {"fulfilled"}) # {}
               /\ locals.opRefPendingCache[reference] = NoResolution)
  /\ [][\A reference \in OpReferences :
          locals.opRefValueCache[reference] =>
            /\ locals'.opRefValueCache[reference]
            /\ ResolutionsOf(reference, {"checking", "checked", "reading", "fulfilled",
                                         "rejected"})'
                 = ResolutionsOf(reference, {"checking", "checked", "reading", "fulfilled",
                                             "rejected"})]_vars
  /\ [][\A r \in DOMAIN locals.resolutions :
          (locals.resolutions[r].stage = "reading" /\ Rejected(r)') =>
            LET reference == locals.resolutions[r].reference
            IN /\ locals'.opRefPendingCache[reference] = NoResolution
               /\ locals'.opRefValueCache[reference] = locals.opRefValueCache[reference]]_vars
  /\ [][Len(locals'.calls) > Len(locals.calls) =>
          LET reference == locals'.calls[Len(locals'.calls)].reference
          IN (~locals.opRefValueCache[reference]
              /\ locals.opRefPendingCache[reference] = NoResolution)
               => Len(locals'.resolutions) = Len(locals.resolutions) + 1]_vars

\* C40 fails: op --version failed for the first call on a reference, whose
\* resolution is rejected and still the pending entry; a later call on the
\* reference was handed that rejected promise, and no op read was started.
C40_Witness ==
  /\ Len(locals.calls) = 2
  /\ Len(locals.resolutions) = 1
  /\ Rejected(1)
  /\ locals.opRefPendingCache["op://a"] = 1
  /\ locals.calls[2] = [got |-> "promise", reference |-> "op://a", resolution |-> 1]
  /\ ~locals.opInstallChecked

=============================================================================
